---- MODULE Spec2Model ----
(***************************************************************************)
(* Model of Hisame's episode discovery and playback pipeline:              *)
(*   - PlayerService.FindEpisodes / buildEpisodeList (episode resolver),   *)
(*   - AnimeListModel.playEpisode (the playback caller),                   *)
(*   - MPVPlayer.Play and MPVIPCClient (the playback session).             *)
(* Strings the code parses (episode labels, AniList ids, source names)     *)
(* are sequences of one-character strings; strings the code only compares  *)
(* are TLA+ strings.                                                       *)
(***************************************************************************)
EXTENDS Integers, Sequences, FiniteSets, TLC

VARIABLES
    \* --- episode resolver (PlayerService.FindEpisodes) ---
    req,        \* the arguments of the FindEpisodes call
    catalog,    \* what the aggregator answers to each title search
    res,        \* the value FindEpisodes returned ("none" before the call)
    \* --- playback session (MPVPlayer.Play, MPVIPCClient) ---
    pc,           \* where the goroutine started by Play stands
    proc,         \* the player process: "none", "running", "exited"
    socket,       \* whether the IPC socket file exists
    attempt,      \* the attempt counter of WaitForConnection (0 outside it)
    conn,         \* MPVIPCClient.conn: "none", "open", "closed"
    reader,       \* the readEvents goroutine: "none", "running", "sending", "done"
    ipc,          \* the events buffered in MPVIPCClient.events
    ipcClosed,    \* whether MPVIPCClient.events has been closed
    sent,         \* how many events the player has sent
    ctxDone,      \* whether the caller cancelled the context given to Play
    connExpired,  \* whether the 10 s connect deadline has passed
    startExpired, \* whether the 30 s start deadline has passed
    events,       \* every PlaybackEvent sent on the channel Play returned
    closed,       \* whether that channel has been closed
    playbackTime, \* the monitor's playbackTime
    duration,     \* the monitor's duration
    consumed,     \* the IPC events the monitor has received, in order
    cause,        \* the branch by which the goroutine ended ("" while running)
    \* --- playback caller (AnimeListModel.playEpisode) ---
    listing,      \* what the aggregator answers to the source listing query
    sources,      \* EpisodeSourceInfo.Sources as GetEpisodeSources returned it
    cpc,          \* where playEpisode stands
    idx,          \* the position of the range loop over sources
    tried,        \* the GetStreamURL calls made, with what each returned, in order
    streamURL,    \* playEpisode's streamURL
    launched,     \* the stream URLs LaunchPlayer has been called with
    reported,     \* the PlaybackMsg values playEpisode has returned
    timedOut,     \* whether playEpisode's 2 minute context has expired
    \* --- the player at the other end of the IPC socket ---
    player,       \* the events the player sends in this run
    goos,         \* the platform the program is built for: "unix", "windows"
    stops,        \* what each Stop() call so far returned ("" for nil)
    \* --- pure functions applied to drawn inputs ---
    encoded,      \* the argument of decodeSourceURL
    decoded,      \* what decodeSourceURL returned ("none" before the call)
    operands,     \* the arguments of calculateProgressPercentage
    computed,     \* what calculateProgressPercentage returned
    \* --- the terminal user interface and the configuration ---
    keyContext,   \* the keybinding context of a key press
    keyMsg,       \* the key pressed, as tea.KeyMsg.String() gives it
    keyAction,    \* what GetActionByKey returned ("none" before the call)
    cfgFile,      \* the config file: whether it exists and the keys it holds
    environ,      \* the process environment ("" for a variable that is unset)
    loaded,       \* what the latest Load returned under this file and environment
    modelStack,   \* AppModel.modelStack: the view of each model, bottom first
    inbox,        \* the messages commands have produced and Update has not yet had
    sessions,     \* every playEpisode command started, in order of start
    listeners,    \* the listenForPlaybackCompletion commands blocked on the receive
    tracked,      \* UserData.Progress of the selected anime
    flows,        \* how many playback flows the user has started
    Items,        \* MenuModel.Items: IsSeparator of each item, top first
    Cursor,       \* MenuModel.Cursor, an index counted from 0
    menuReady     \* MenuModel.Init has run

resolverVars == <<req, catalog, res>>

sessionVars ==
    <<pc, proc, socket, attempt, conn, reader, ipc, ipcClosed, sent, ctxDone,
      connExpired, startExpired, events, closed, playbackTime, duration,
      consumed, cause>>

callerVars ==
    <<listing, sources, cpc, idx, tried, streamURL, launched, reported, timedOut>>

pureVars == <<encoded, decoded, operands, computed>>

\* the surroundings of a session: the player, the platform, the Stop() calls
aroundVars == <<player, goos, stops>>

keyVars == <<keyContext, keyMsg, keyAction>>

\* the user interface and the configuration
configVars == <<cfgFile, environ, loaded>>

appVars == <<modelStack, inbox, sessions, listeners, tracked, flows>>

menuVars == <<Items, Cursor, menuReady>>

uiVars == <<keyVars, configVars, appVars, menuVars>>

besidesResolver == <<sessionVars, callerVars, pureVars, aroundVars, uiVars>>
besidesSession == <<resolverVars, callerVars, pureVars, aroundVars, uiVars>>
besidesCaller == <<resolverVars, sessionVars, pureVars, aroundVars, uiVars>>
besidesPure == <<resolverVars, sessionVars, callerVars, aroundVars, uiVars>>
besidesUi == <<resolverVars, sessionVars, callerVars, pureVars, aroundVars>>

vars == <<resolverVars, sessionVars, callerVars, pureVars, aroundVars, uiVars>>

-----------------------------------------------------------------------------
(* Bounds of the model. *)
MaxOverrides == 2    \* override variables set in the environment at once
MaxEdits == 1        \* settings UpdateConfig has changed in the config file
MaxPlays == 2        \* playback flows the user starts
MaxItems == 5        \* items of a menu, separators included

\* the most episode labels one show carries
MaxLabels == 3
\* the number of shows in the ordering inputs
MaxShows == 3
\* the most events the player sends in one session
MaxMpvEvents == 4
MaxFlood == 101      \* events a player that reports its playback time sends
\* the most sources the aggregator lists for one episode
MaxSources == 2
\* the most pieces an encoded source URL is put together from
MaxPieces == 3
\* the largest playback time and duration, in seconds, the player reports
MaxSeconds == 5
\* the most Stop() calls made on one player
MaxStops == 2

-----------------------------------------------------------------------------
(* strconv.Atoi on a sequence of characters: an optional sign followed by  *)
(* one or more decimal digits.                                             *)

Digits == {"0", "1", "2", "3", "4", "5", "6", "7", "8", "9"}

DigitVal(c) ==
    CASE c = "0" -> 0 [] c = "1" -> 1 [] c = "2" -> 2 [] c = "3" -> 3
      [] c = "4" -> 4 [] c = "5" -> 5 [] c = "6" -> 6 [] c = "7" -> 7
      [] c = "8" -> 8 [] c = "9" -> 9

RECURSIVE DigitsVal(_)
DigitsVal(s) ==
    IF s = <<>> THEN 0
    ELSE DigitsVal(SubSeq(s, 1, Len(s) - 1)) * 10 + DigitVal(s[Len(s)])

Atoi(s) ==
    LET signed == Len(s) > 0 /\ s[1] \in {"+", "-"}
        body   == IF signed THEN Tail(s) ELSE s
    IN  IF body = <<>> \/ \E i \in 1..Len(body) : body[i] \notin Digits
        THEN [ok |-> FALSE, v |-> 0]
        ELSE [ok |-> TRUE,
              v  |-> IF signed /\ s[1] = "-" THEN 0 - DigitsVal(body)
                     ELSE DigitsVal(body)]

\* strings.ToLower on the names the model uses
ToLower(s) ==
    CASE s = "X" -> "x" [] s = "Y" -> "y" [] s = "Z" -> "z" [] OTHER -> s

-----------------------------------------------------------------------------
(* AllAnimeShow and its accessors. *)

\* AllAnimeShow.GetAniListID
GetAniListID(show) ==
    IF show.AniListID = <<>> \/ show.AniListID = <<"n", "u", "l", "l">>
    THEN 0
    ELSE IF Atoi(show.AniListID).ok THEN Atoi(show.AniListID).v ELSE 0

\* AllAnimeShow.GetAvailableEpisodes
GetAvailableEpisodes(show, translationType) ==
    CASE translationType = "sub" -> show.Sub
      [] translationType = "dub" -> show.Dub
      [] OTHER -> show.Sub

\* AiredDate.ToTime, as the number of months since year 0: time.Date
\* normalises a month outside 1..12 into the neighbouring year.  The model's
\* dates differ in year and month only.
ToTime(a) == a.Year * 12 + (a.Month - 1)

-----------------------------------------------------------------------------
(* FindEpisodes: search, deduplicate, match, sort, number. *)

\* the loop over titles: every non-empty title is searched; a search that
\* fails is skipped; the answers are appended in order
RECURSIVE SearchAll(_, _, _)
SearchAll(titles, resp, i) ==
    IF i > Len(titles) THEN <<>>
    ELSE IF titles[i] = "" \/ resp[i].err
         THEN SearchAll(titles, resp, i + 1)
         ELSE resp[i].shows \o SearchAll(titles, resp, i + 1)

RECURSIVE deduplicateFrom(_, _, _)
deduplicateFrom(shows, i, seen) ==
    IF i > Len(shows) THEN <<>>
    ELSE IF shows[i].ID \in seen
         THEN deduplicateFrom(shows, i + 1, seen)
         ELSE <<shows[i]>> \o deduplicateFrom(shows, i + 1, seen \cup {shows[i].ID})

deduplicateShows(shows) == deduplicateFrom(shows, 1, {})

matchesByTitleOrSynonyms(title, synonyms, show) ==
    \/ ToLower(show.Name) = ToLower(title.Romaji)
    \/ ToLower(show.EnglishName) = ToLower(title.English)
    \/ ToLower(show.NativeName) = ToLower(title.Native)
    \/ \E i \in 1..Len(show.TrustedAltNames) :
          \E j \in 1..Len(synonyms) :
              ToLower(show.TrustedAltNames[i]) = ToLower(synonyms[j])

\* the filter of the matching loop of FindEpisodes
ShowMatches(animeID, title, synonyms, show) ==
    \/ GetAniListID(show) = animeID
    \/ /\ GetAniListID(show) = 0
       /\ matchesByTitleOrSynonyms(title, synonyms, show)

RECURSIVE MatchFrom(_, _, _, _, _)
MatchFrom(animeID, title, synonyms, shows, i) ==
    IF i > Len(shows) THEN <<>>
    ELSE (IF ShowMatches(animeID, title, synonyms, shows[i])
          THEN <<shows[i]>> ELSE <<>>)
         \o MatchFrom(animeID, title, synonyms, shows, i + 1)

\* the comparison handed to sort.Slice
ShowLess(a, b) ==
    IF a.AiredStart.Year > 0 /\ b.AiredStart.Year > 0
    THEN ToTime(a.AiredStart) < ToTime(b.AiredStart)
    ELSE a.ID < b.ID

Swap(s, i, j) == [s EXCEPT ![i] = s[j], ![j] = s[i]]

\* sort.Slice on a slice of at most 12 elements is an insertion sort:
\* element i is moved down while it is less than its predecessor
RECURSIVE ShowSink(_, _)
ShowSink(s, j) ==
    IF j > 1 /\ ShowLess(s[j], s[j - 1])
    THEN ShowSink(Swap(s, j, j - 1), j - 1)
    ELSE s

RECURSIVE ShowSortFrom(_, _)
ShowSortFrom(s, i) ==
    IF i > Len(s) THEN s ELSE ShowSortFrom(ShowSink(s, i), i + 1)

SortShows(s) == ShowSortFrom(s, 2)

\* sort.Ints
RECURSIVE IntSink(_, _)
IntSink(s, j) ==
    IF j > 1 /\ s[j] < s[j - 1]
    THEN IntSink(Swap(s, j, j - 1), j - 1)
    ELSE s

RECURSIVE IntSortFrom(_, _)
IntSortFrom(s, i) ==
    IF i > Len(s) THEN s ELSE IntSortFrom(IntSink(s, i), i + 1)

SortInts(s) == IntSortFrom(s, 2)

\* the labels of a show that strconv.Atoi accepts, as numbers, in label order
RECURSIVE ParseLabels(_, _)
ParseLabels(labels, i) ==
    IF i > Len(labels) THEN <<>>
    ELSE (IF Atoi(labels[i]).ok THEN <<Atoi(labels[i]).v>> ELSE <<>>)
         \o ParseLabels(labels, i + 1)

\* episodeMap[epNum]: the last label that parses to epNum
EpisodeMapAt(labels, n) ==
    LET hits == {i \in 1..Len(labels) : Atoi(labels[i]).ok /\ Atoi(labels[i]).v = n}
    IN  labels[CHOOSE i \in hits : \A k \in hits : k <= i]

\* the episode records of one show, given the running offset
ShowEpisodes(show, labels, episodeNums, animeID, episodeOffset) ==
    [k \in 1..Len(episodeNums) |->
        [AllAnimeID            |-> show.ID,
         OverallEpisodeNumber  |-> episodeNums[k] + episodeOffset,
         AllAnimeEpisodeNumber |-> EpisodeMapAt(labels, episodeNums[k]),
         MatchType             |-> IF GetAniListID(show) = animeID /\ animeID # 0
                                   THEN "anilist" ELSE "synonym"]]

\* an offset that counts a show without a parseable label as one episode
NextOffset_CountsEmpty(episodeNums, episodeOffset) ==
    IF Len(episodeNums) > 0
    THEN episodeOffset + episodeNums[Len(episodeNums)]
    ELSE episodeOffset + 1

\* an offset that grows by the number of episodes of the show
NextOffset_ByCount(episodeNums, episodeOffset) == episodeOffset + Len(episodeNums)

\* the offset after a show: it grows by the show's largest episode number
NextOffset(episodeNums, episodeOffset) ==
    IF Len(episodeNums) > 0
    THEN episodeOffset + episodeNums[Len(episodeNums)]
    ELSE episodeOffset

RECURSIVE BuildFrom(_, _, _, _, _)
BuildFrom(shows, animeID, translationType, i, episodeOffset) ==
    IF i > Len(shows) THEN <<>>
    ELSE LET labels == GetAvailableEpisodes(shows[i], translationType)
             nums   == SortInts(ParseLabels(labels, 1))
         IN  IF Len(labels) = 0
             THEN BuildFrom(shows, animeID, translationType, i + 1, episodeOffset)
             ELSE ShowEpisodes(shows[i], labels, nums, animeID, episodeOffset)
                  \o BuildFrom(shows, animeID, translationType, i + 1,
                               NextOffset(nums, episodeOffset))

buildEpisodeList(shows, animeID, translationType) ==
    BuildFrom(shows, animeID, translationType, 1, 0)

\* the value FindEpisodes returns
FindEpisodesResult(r, cat) ==
    LET titles     == <<r.title.Native, r.title.English, r.title.Romaji>>
        shows      == deduplicateShows(SearchAll(titles, cat.resp, 1))
        matched    == MatchFrom(r.animeID, r.title, r.synonyms, shows, 1)
        sorted     == SortShows(matched)
    IN  IF Len(shows) = 0
        THEN [status |-> "no-candidates", candidates |-> shows,
              matched |-> <<>>, episodes |-> <<>>]
        ELSE IF Len(matched) = 0
        THEN [status |-> "no-match", candidates |-> shows,
              matched |-> <<>>, episodes |-> <<>>]
        ELSE [status |-> "ok", candidates |-> shows, matched |-> sorted,
              episodes |-> buildEpisodeList(sorted, r.animeID, cat.translationType)]

NoResult == [status |-> "none", candidates |-> <<>>, matched |-> <<>>, episodes |-> <<>>]

FindEpisodes ==
    /\ res.status = "none"
    /\ res' = FindEpisodesResult(req, catalog)
    /\ UNCHANGED <<req, catalog>>
    /\ UNCHANGED besidesResolver

-----------------------------------------------------------------------------
(* The playback session: MPVPlayer.Play, its goroutine and the IPC client. *)

\* WaitForConnection(connCtx, 20, 500ms)
maxAttempts == 20
\* make(chan MPVEvent, 100)
IpcChanCap == 100
\* make(chan PlaybackEvent, 10)
EventsChanCap == 10

\* the data of an MPVEvent: absent, a number, or an object {name, data}
NoData == [kind |-> "none", name |-> "", inner |-> "none", num |-> 0, bool |-> FALSE]
NumData(v) == [kind |-> "num", name |-> "", inner |-> "none", num |-> v, bool |-> FALSE]
ObjNum(n, v) == [kind |-> "obj", name |-> n, inner |-> "num", num |-> v, bool |-> FALSE]
ObjBool(n, b) == [kind |-> "obj", name |-> n, inner |-> "bool", num |-> 0, bool |-> b]

MPVEvent(event, name, data) ==
    [Event |-> event, Name |-> name, Data |-> data, Error |-> ""]

\* an event whose error field the player has set
MPVError(event, err) == [Event |-> event, Name |-> "", Data |-> NoData, Error |-> err]

\* the events the player sends in the model
MPVEvents ==
    {MPVEvent("end-file", "", NoData),
     MPVEvent("playback-restart", "", NoData),
     MPVEvent("property-change", "playback-time", NumData(45)),
     MPVEvent("property-change", "playback-time", NumData(90)),
     MPVEvent("property-change", "playback-time", NoData),
     MPVEvent("property-change", "duration", NumData(90)),
     MPVEvent("property-change", "", ObjNum("playback-time", 45)),
     MPVEvent("property-change", "", ObjNum("playback-time", 0)),
     MPVEvent("property-change", "", ObjBool("idle-active", FALSE))}

\* a computed percentage, kept exact as the fraction num/den
Percent(n, d) == [num |-> n, den |-> d]

PlaybackEvent(type, progress, err) == [Type |-> type, Progress |-> progress, Error |-> err]

\* MPVPlayer.calculateProgressPercentage
calculateProgressPercentage(pt, dur) ==
    IF pt = 0 \/ dur = 0 THEN Percent(0, 1) ELSE Percent(pt * 100, dur)

\* MPVPlayer.extractEventDataFloat: the event's name is the target and its
\* data unmarshals into a float64
extractEventDataFloat(event, targetName) ==
    IF event.Name = targetName /\ event.Data.kind = "num"
    THEN [ok |-> TRUE, v |-> event.Data.num]
    ELSE [ok |-> FALSE, v |-> 0]

\* the events on which WaitForPlaybackStart returns nil
StartConfirmed(event) ==
    \/ /\ event.Event = "property-change"
       /\ event.Data.kind = "obj"
       /\ \/ event.Data.name = "playback-time" /\ event.Data.inner = "num"
                /\ event.Data.num > 0
          \/ event.Data.name = "idle-active" /\ event.Data.inner = "bool"
                /\ ~event.Data.bool
    \/ event.Event = "playback-restart"
    \/ event.Event = "file-loaded"

NoSession ==
    /\ pc = "idle" /\ proc = "none" /\ socket = FALSE /\ attempt = 0
    /\ conn = "none" /\ reader = "none" /\ ipc = <<>> /\ ipcClosed = FALSE
    /\ sent = 0 /\ ctxDone = FALSE /\ connExpired = FALSE /\ startExpired = FALSE
    /\ events = <<>> /\ closed = FALSE /\ playbackTime = 0 /\ duration = 0
    /\ consumed = <<>> /\ cause = ""

\* no Stop() call yet, on the platform whose build releases the process
Unstopped == goos = "unix" /\ stops = <<>>

SessionIdle == NoSession /\ player = MPVEvents /\ Unstopped

\* a player that fails while playing: playback starts, then the file cannot
\* be read further and the player reports the error
FailingPlayer ==
    {MPVEvent("playback-restart", "", NoData),
     MPVEvent("property-change", "playback-time", NumData(45)),
     MPVEvent("property-change", "duration", NumData(90)),
     MPVError("end-file", "loading failed"),
     MPVError("", "property unavailable")}

\* a goroutine that returns without closing the channel
Finish_LeavesOpen(last, why) ==
    /\ events' = events \o last
    /\ closed' = FALSE
    /\ pc' = "done"
    /\ cause' = why

\* the goroutine sends its last event (if any) and returns: the deferred
\* close(events) runs
Finish(last, why) ==
    /\ events' = events \o last
    /\ closed' = TRUE
    /\ pc' = "done"
    /\ cause' = why

\* a failure reported as the end of playback
ErrorEvent_AsEnded(err) == PlaybackEvent("ended", Percent(0, 1), err)

\* the event Play sends for a failed connect or start detection
ErrorEvent(err) == PlaybackEvent("error", Percent(0, 1), err)

\* Play: cmd.Start either fails (the channel is closed, an error returned)
\* or the process runs and the goroutine is started
Play ==
    /\ pc = "idle"
    /\ \/ /\ Finish(<<>>, "spawn-failed")
          /\ UNCHANGED <<proc, attempt>>
       \/ /\ proc' = "running"
          /\ pc' = "connecting"
          /\ attempt' = 1
          /\ UNCHANGED <<events, closed, cause>>
    /\ UNCHANGED <<socket, conn, reader, ipc, ipcClosed, sent, ctxDone,
                   connExpired, startExpired, playbackTime, duration, consumed>>
    /\ UNCHANGED besidesSession

\* the player creates its IPC socket
MpvCreateSocket ==
    /\ proc = "running" /\ ~socket
    /\ socket' = TRUE
    /\ UNCHANGED <<pc, proc, attempt, conn, reader, ipc, ipcClosed, sent, ctxDone,
                   connExpired, startExpired, events, closed, playbackTime,
                   duration, consumed, cause>>
    /\ UNCHANGED besidesSession

\* the player process exits (end of stream, window closed, crash)
MpvExit ==
    /\ proc = "running"
    /\ proc' = "exited"
    /\ UNCHANGED <<pc, socket, attempt, conn, reader, ipc, ipcClosed, sent, ctxDone,
                   connExpired, startExpired, events, closed, playbackTime,
                   duration, consumed, cause>>
    /\ UNCHANGED besidesSession

\* a cancellation that kills the player, as a command made with
\* exec.CommandContext would
CtxCancel_KillsPlayer ==
    /\ pc \notin {"idle", "done"} /\ ~ctxDone
    /\ ctxDone' = TRUE
    /\ proc' = IF proc = "running" THEN "exited" ELSE proc
    /\ UNCHANGED <<pc, socket, attempt, conn, reader, ipc, ipcClosed, sent,
                   connExpired, startExpired, events, closed, playbackTime,
                   duration, consumed, cause>>
    /\ UNCHANGED besidesSession

\* the caller cancels the context it gave to Play
CtxCancel ==
    /\ pc \notin {"idle", "done"} /\ ~ctxDone
    /\ ctxDone' = TRUE
    /\ UNCHANGED <<pc, proc, socket, attempt, conn, reader, ipc, ipcClosed, sent,
                   connExpired, startExpired, events, closed, playbackTime,
                   duration, consumed, cause>>
    /\ UNCHANGED besidesSession

\* the deadline of connCtx passes
ConnExpire ==
    /\ pc = "connecting" /\ ~connExpired
    /\ connExpired' = TRUE
    /\ UNCHANGED <<pc, proc, socket, attempt, conn, reader, ipc, ipcClosed, sent,
                   ctxDone, startExpired, events, closed, playbackTime, duration,
                   consumed, cause>>
    /\ UNCHANGED besidesSession

\* the deadline of playbackCtx passes
StartExpire ==
    /\ pc \in {"query", "awaitingStart"} /\ ~startExpired
    /\ startExpired' = TRUE
    /\ UNCHANGED <<pc, proc, socket, attempt, conn, reader, ipc, ipcClosed, sent,
                   ctxDone, connExpired, events, closed, playbackTime, duration,
                   consumed, cause>>
    /\ UNCHANGED besidesSession

\* connCtx is done: the caller cancelled or the connect deadline passed
ConnCtxDone == ctxDone \/ connExpired

\* playbackCtx (and the timeout WaitForPlaybackStart derives from it) is done
StartCtxDone == ctxDone \/ startExpired

\* WaitForConnection: Connect succeeds; the reader goroutine is started and
\* Play goes on to WaitForPlaybackStart
ConnectOk ==
    /\ pc = "connecting" /\ attempt <= maxAttempts
    /\ socket /\ proc = "running"
    /\ conn' = "open"
    /\ reader' = "running"
    /\ pc' = "query"
    /\ attempt' = 0
    /\ UNCHANGED <<proc, socket, ipc, ipcClosed, sent, ctxDone, connExpired,
                   startExpired, events, closed, playbackTime, duration, consumed,
                   cause>>
    /\ UNCHANGED besidesSession

\* a retry that does not count the attempt
ConnectRetry_Uncounted ==
    /\ pc = "connecting" /\ attempt <= maxAttempts
    /\ ~ConnCtxDone
    /\ attempt' = IF attempt > 1 THEN attempt - 1 ELSE attempt
    /\ UNCHANGED <<pc, proc, socket, conn, reader, ipc, ipcClosed, sent, ctxDone,
                   connExpired, startExpired, events, closed, playbackTime,
                   duration, consumed, cause>>
    /\ UNCHANGED besidesSession

\* WaitForConnection: the socket is missing or Connect fails, and the retry
\* delay passes before the context is done
ConnectRetry ==
    /\ pc = "connecting" /\ attempt <= maxAttempts
    /\ ~ConnCtxDone
    /\ attempt' = attempt + 1
    /\ UNCHANGED <<pc, proc, socket, conn, reader, ipc, ipcClosed, sent, ctxDone,
                   connExpired, startExpired, events, closed, playbackTime,
                   duration, consumed, cause>>
    /\ UNCHANGED besidesSession

\* a Play that sends the error event and forgets to return
FailWith_NoReturn(err, why) ==
    /\ events' = Append(events, ErrorEvent(err))
    /\ pc' = "playing"
    /\ UNCHANGED <<closed, cause>>

\* what Play does when WaitForConnection or WaitForPlaybackStart returns an
\* error: one error event, then return
FailWith(err, why) == Finish(<<ErrorEvent(err)>>, why)

\* WaitForConnection: the socket is missing or Connect fails, and the context
\* is done: ctx.Err() is returned
ConnectDeadline ==
    /\ pc = "connecting" /\ attempt <= maxAttempts
    /\ ConnCtxDone
    /\ FailWith("context done", "connect-deadline")
    /\ attempt' = 0
    /\ UNCHANGED <<proc, socket, conn, reader, ipc, ipcClosed, sent,
                   ctxDone, connExpired, startExpired, playbackTime, duration,
                   consumed>>
    /\ UNCHANGED besidesSession

\* WaitForConnection: the loop ends after maxAttempts attempts
ConnectExhausted ==
    /\ pc = "connecting" /\ attempt > maxAttempts
    /\ FailWith("failed to connect to MPV", "connect-exhausted")
    /\ attempt' = 0
    /\ UNCHANGED <<proc, socket, conn, reader, ipc, ipcClosed, sent,
                   ctxDone, connExpired, startExpired, playbackTime, duration,
                   consumed>>
    /\ UNCHANGED besidesSession

\* WaitForPlaybackStart: the get_property command is written to the
\* connection; the write fails when the peer is gone
QueryIdle ==
    /\ pc = "query"
    /\ \/ /\ proc = "running"
          /\ pc' = "awaitingStart"
          /\ UNCHANGED <<events, closed, cause>>
       \/ /\ proc # "running"
          /\ FailWith("failed to query playback state", "query-failed")
    /\ UNCHANGED <<proc, socket, attempt, conn, reader, ipc, ipcClosed, sent,
                   ctxDone, connExpired, startExpired, playbackTime, duration,
                   consumed>>
    /\ UNCHANGED besidesSession

\* WaitForPlaybackStart: the select takes ctx.Done()
StartTimeout ==
    /\ pc = "awaitingStart"
    /\ StartCtxDone
    /\ FailWith("timeout waiting for MPV to start playback", "start-timeout")
    /\ UNCHANGED <<proc, socket, attempt, conn, reader, ipc, ipcClosed, sent,
                   ctxDone, connExpired, startExpired, playbackTime, duration,
                   consumed>>
    /\ UNCHANGED besidesSession

\* WaitForPlaybackStart: the select finds the event channel closed
StartClosed ==
    /\ pc = "awaitingStart"
    /\ ipc = <<>> /\ ipcClosed
    /\ FailWith("MPV connection closed while waiting for playback", "start-closed")
    /\ UNCHANGED <<proc, socket, attempt, conn, reader, ipc, ipcClosed, sent,
                   ctxDone, connExpired, startExpired, playbackTime, duration,
                   consumed>>
    /\ UNCHANGED besidesSession

\* WaitForPlaybackStart: the select receives an event; on a start signal it
\* returns nil and Play sends the started event, otherwise the wait goes on
StartRecv ==
    /\ pc = "awaitingStart"
    /\ ipc # <<>>
    /\ ipc' = Tail(ipc)
    /\ IF StartConfirmed(Head(ipc))
       THEN /\ events' = Append(events, PlaybackEvent("started", Percent(0, 1), ""))
            /\ pc' = "playing"
       ELSE UNCHANGED <<events, pc>>
    /\ UNCHANGED <<proc, socket, attempt, conn, reader, ipcClosed, sent, ctxDone,
                   connExpired, startExpired, closed, playbackTime, duration,
                   consumed, cause>>
    /\ UNCHANGED besidesSession

\* the ended event of the monitoring loop
EndedEvent == PlaybackEvent("ended", calculateProgressPercentage(playbackTime, duration), "")

\* the monitoring loop: the select takes ctx.Done()
MonitorCancelled ==
    /\ pc = "playing"
    /\ ctxDone
    /\ Finish(<<>>, "cancelled")
    /\ UNCHANGED <<proc, socket, attempt, conn, reader, ipc, ipcClosed, sent,
                   ctxDone, connExpired, startExpired, playbackTime, duration,
                   consumed>>
    /\ UNCHANGED besidesSession

\* the monitoring loop: the event channel is closed
MonitorClosed ==
    /\ pc = "playing"
    /\ ipc = <<>> /\ ipcClosed
    /\ Finish(<<EndedEvent>>, "ipc-closed")
    /\ UNCHANGED <<proc, socket, attempt, conn, reader, ipc, ipcClosed, sent,
                   ctxDone, connExpired, startExpired, playbackTime, duration,
                   consumed>>
    /\ UNCHANGED besidesSession

\* the monitor's variables after a property-change event
DurationAfter(event) ==
    IF extractEventDataFloat(event, "duration").ok
    THEN extractEventDataFloat(event, "duration").v ELSE duration

\* a monitor that keeps the first playback time it saw
PlaybackTimeAfter_KeepsFirst(event) ==
    IF extractEventDataFloat(event, "playback-time").ok /\ playbackTime = 0
    THEN extractEventDataFloat(event, "playback-time").v ELSE playbackTime

PlaybackTimeAfter(event) ==
    IF extractEventDataFloat(event, "playback-time").ok
    THEN extractEventDataFloat(event, "playback-time").v ELSE playbackTime

\* a monitor that waits for the start of playback again
MonitorContinues_Rewait == pc' = "awaitingStart"

\* the monitoring loop goes round after an event that does not end it
MonitorContinues == pc' = pc

\* the monitoring loop: an event is received
MonitorRecv ==
    /\ pc = "playing"
    /\ ipc # <<>>
    /\ ipc' = Tail(ipc)
    /\ consumed' = Append(consumed, Head(ipc))
    /\ IF Head(ipc).Event = "end-file"
       THEN /\ Finish(<<EndedEvent>>, "end-file")
            /\ UNCHANGED <<playbackTime, duration>>
       ELSE /\ IF Head(ipc).Event = "property-change"
               THEN /\ duration' = DurationAfter(Head(ipc))
                    /\ playbackTime' = PlaybackTimeAfter(Head(ipc))
               ELSE UNCHANGED <<playbackTime, duration>>
            /\ MonitorContinues
            /\ UNCHANGED <<events, closed, cause>>
    /\ UNCHANGED <<proc, socket, attempt, conn, reader, ipcClosed, sent, ctxDone,
                   connExpired, startExpired>>
    /\ UNCHANGED besidesSession

\* a player that reports its playback time for as long as it plays
FloodPlayer == {MPVEvent("property-change", "", ObjNum("playback-time", 45))}

\* how many events the player of this run sends
EventBudget == IF player = FloodPlayer THEN MaxFlood ELSE MaxMpvEvents

\* c.events <- event blocks while the channel holds IpcChanCap events
ReaderBlocks == Len(ipc) >= IpcChanCap

\* readEvents: the player sends a line, the reader parses it and sends the
\* event into the buffered channel, or blocks on the send when it is full
ReaderRecv ==
    /\ reader = "running" /\ conn = "open" /\ proc = "running"
    /\ sent < EventBudget
    /\ IF ReaderBlocks
       THEN reader' = "sending" /\ ipc' = ipc
       ELSE reader' = reader /\ \E e \in player : ipc' = Append(ipc, e)
    /\ sent' = sent + 1
    /\ UNCHANGED <<pc, proc, socket, attempt, conn, ipcClosed, ctxDone,
                   connExpired, startExpired, events, closed, playbackTime,
                   duration, consumed, cause>>
    /\ UNCHANGED besidesSession

\* readEvents: the blocked send goes through once the channel has room
ReaderSend ==
    /\ reader = "sending"
    /\ Len(ipc) < IpcChanCap
    /\ \E e \in player : ipc' = Append(ipc, e)
    /\ reader' = "running"
    /\ UNCHANGED <<pc, proc, socket, attempt, conn, ipcClosed, sent, ctxDone,
                   connExpired, startExpired, events, closed, playbackTime,
                   duration, consumed, cause>>
    /\ UNCHANGED besidesSession

\* readEvents: the scanner reaches the end of the stream; the event channel
\* is closed
ReaderStop ==
    /\ reader = "running"
    /\ proc # "running" \/ conn = "closed"
    /\ reader' = "done"
    /\ ipcClosed' = TRUE
    /\ UNCHANGED <<pc, proc, socket, attempt, conn, ipc, sent, ctxDone,
                   connExpired, startExpired, events, closed, playbackTime,
                   duration, consumed, cause>>
    /\ UNCHANGED besidesSession

PlayNext ==
    \/ Play \/ MpvCreateSocket \/ MpvExit \/ CtxCancel \/ ConnExpire \/ StartExpire
    \/ ConnectOk \/ ConnectRetry \/ ConnectDeadline \/ ConnectExhausted
    \/ QueryIdle \/ StartTimeout \/ StartClosed \/ StartRecv
    \/ MonitorCancelled \/ MonitorClosed \/ MonitorRecv
    \/ ReaderRecv \/ ReaderStop

-----------------------------------------------------------------------------
(* Inputs of the resolver: three families of calls. *)

Show(id, name, english, native, alts, anilist, year, sub) ==
    [ID |-> id, Name |-> name, EnglishName |-> english, NativeName |-> native,
     TrustedAltNames |-> alts, AniListID |-> anilist,
     AiredStart |-> [Year |-> year, Month |-> 1], Sub |-> sub, Dub |-> <<>>]

\* what AllAnimeClient.SearchShows returns: an error, or the shows found
SearchErr == [err |-> TRUE, shows |-> <<>>]
Found(shows) == [err |-> FALSE, shows |-> shows]

Title(native, english, romaji) ==
    [Native |-> native, English |-> english, Romaji |-> romaji]

\* AniList ids as the aggregator sends them: absent, "null", two numbers, junk
AniListIDs == {<<>>, <<"n", "u", "l", "l">>, <<"7">>, <<"8">>, <<"7", "x">>}

\* the candidate whose fields vary in the matching inputs
MatchCandidates ==
    {Show(1, n, e, m, a, id, 2022, << <<"1">>, <<"2">> >>) :
        n \in {"", "X", "q"}, e \in {"", "x"}, m \in {"", "m"},
        a \in {<<>>, <<"Z">>}, id \in AniListIDs}

\* a second candidate, matched by its AniList id 7 only
OtherCandidate == Show(2, "q", "e", "m", <<>>, <<"7">>, 2023, << <<"1">> >>)

\* the matching inputs: the candidate, the arguments and the three answers
MatchInit ==
    \E c \in MatchCandidates, id \in {0, 7},
       tn \in {"", "n"}, te \in {"", "x"}, tr \in {"x", "y"},
       r1 \in {1, 2, 3}, r2 \in {1, 2, 3}, r3 \in {1, 2, 3} :
        LET answers == <<SearchErr, Found(<<>>), Found(<<c>>)>>
            last    == <<SearchErr, Found(<<>>), Found(<<OtherCandidate, c>>)>>
        IN  /\ req = [animeID |-> id, title |-> Title(tn, te, tr), synonyms |-> <<"z">>]
            /\ catalog = [resp |-> <<answers[r1], answers[r2], last[r3]>>,
                          translationType |-> "sub"]

\* the ordering inputs: MaxShows shows matched by id, each with a known or an
\* unknown year, returned by the aggregator in any order
Injections(n) == {f \in [1..n -> 1..n] : \A i, j \in 1..n : f[i] = f[j] => i = j}

OrderInit ==
    \E y \in [1..MaxShows -> {0, 2022, 2023}], p \in Injections(MaxShows) :
        /\ req = [animeID |-> 7, title |-> Title("", "", "x"), synonyms |-> <<>>]
        /\ catalog =
             [resp |-> <<SearchErr, SearchErr,
                         Found([k \in 1..MaxShows |->
                            Show(p[k], "q", "e", "m", <<>>, <<"7">>, y[p[k]], << <<"1">> >>)])>>,
              translationType |-> "sub"]

\* episode labels, in the order the aggregator lists them (newest first)
LabelList ==
    << <<"3">>, <<"2">>, <<"1", ".", "5">>, <<"1">>, <<"0", "1">>, <<"0">>, <<"-", "1">> >>

RECURSIVE LabelsOf(_, _)
LabelsOf(picked, i) ==
    IF i > Len(LabelList) THEN <<>>
    ELSE (IF i \in picked THEN <<LabelList[i]>> ELSE <<>>) \o LabelsOf(picked, i + 1)

LabelChoices == {x \in SUBSET (1..Len(LabelList)) : Cardinality(x) <= MaxLabels}

\* the numbering inputs: two shows matched by id, airing 2022 and 2023
NumberInit ==
    \E ia \in LabelChoices, ib \in LabelChoices, tt \in {"sub", "dub"} :
        /\ req = [animeID |-> 7, title |-> Title("", "", "x"), synonyms |-> <<>>]
        /\ catalog =
             [resp |-> <<SearchErr, SearchErr,
                         Found(<<Show(2, "q", "e", "m", <<>>, <<"7">>, 2022, LabelsOf(ia, 1)),
                                 Show(1, "q", "e", "m", <<>>, <<"7">>, 2023, LabelsOf(ib, 1))>>)>>,
              translationType |-> tt]

ResolverInit ==
    /\ MatchInit \/ OrderInit \/ NumberInit
    /\ res = NoResult

\* no FindEpisodes call in progress
ResolverIdle ==
    /\ req = [animeID |-> 0, title |-> Title("", "", ""), synonyms |-> <<>>]
    /\ catalog = [resp |-> <<SearchErr, SearchErr, SearchErr>>, translationType |-> "sub"]
    /\ res = NoResult

-----------------------------------------------------------------------------
(* decodeSourceURL: the obfuscated source URL, a sequence of characters.   *)

\* the zero rune hexToChar returns for a pair that is not in its table
NoRune == "NUL"

\* hexToChar
hexToChar(pair) ==
    CASE pair = <<"0", "1">> -> "9" [] pair = <<"0", "8">> -> "0"
      [] pair = <<"0", "5">> -> "=" [] pair = <<"0", "a">> -> "2"
      [] pair = <<"0", "b">> -> "3" [] pair = <<"0", "c">> -> "4"
      [] pair = <<"0", "7">> -> "?" [] pair = <<"0", "0">> -> "8"
      [] pair = <<"5", "c">> -> "d" [] pair = <<"0", "f">> -> "7"
      [] pair = <<"5", "e">> -> "f" [] pair = <<"1", "7">> -> "/"
      [] pair = <<"5", "4">> -> "l" [] pair = <<"0", "9">> -> "1"
      [] pair = <<"4", "8">> -> "p" [] pair = <<"4", "f">> -> "w"
      [] pair = <<"0", "e">> -> "6" [] pair = <<"5", "b">> -> "c"
      [] pair = <<"5", "d">> -> "e" [] pair = <<"0", "d">> -> "5"
      [] pair = <<"5", "3">> -> "k" [] pair = <<"1", "e">> -> "&"
      [] pair = <<"5", "a">> -> "b" [] pair = <<"5", "9">> -> "a"
      [] pair = <<"4", "a">> -> "r" [] pair = <<"4", "c">> -> "t"
      [] pair = <<"4", "e">> -> "v" [] pair = <<"5", "7">> -> "o"
      [] pair = <<"5", "1">> -> "i"
      [] OTHER -> NoRune

DecodeResult(err, text) == [err |-> err, text |-> text]

\* a decoder that returns what it has decoded so far when a pair fails
RECURSIVE DecodePairs_Partial(_, _, _)
DecodePairs_Partial(hexStr, i, acc) ==
    IF i > Len(hexStr) THEN DecodeResult("", acc)
    ELSE IF i + 1 > Len(hexStr) THEN DecodeResult("invalid hex pair at position", acc)
    ELSE IF hexToChar(<<hexStr[i], hexStr[i + 1]>>) = NoRune
         THEN DecodeResult("invalid hex pair", acc)
         ELSE DecodePairs_Partial(hexStr, i + 2,
                                  Append(acc, hexToChar(<<hexStr[i], hexStr[i + 1]>>)))

\* the loop of decodeSourceURL over the two-character pairs (i counts from 1)
RECURSIVE DecodePairs(_, _, _)
DecodePairs(hexStr, i, acc) ==
    IF i > Len(hexStr) THEN DecodeResult("", acc)
    ELSE IF i + 1 > Len(hexStr) THEN DecodeResult("invalid hex pair at position", <<>>)
    ELSE IF hexToChar(<<hexStr[i], hexStr[i + 1]>>) = NoRune
         THEN DecodeResult("invalid hex pair", <<>>)
         ELSE DecodePairs(hexStr, i + 2,
                          Append(acc, hexToChar(<<hexStr[i], hexStr[i + 1]>>)))

SlashClock == <<"/", "c", "l", "o", "c", "k">>
SlashClockJson == SlashClock \o <<".", "j", "s", "o", "n">>

\* whether sub occurs in s at position i
OccursAt(s, sub, i) ==
    /\ i + Len(sub) - 1 <= Len(s)
    /\ \A k \in 1..Len(sub) : s[i + k - 1] = sub[k]

\* strings.Replace(decoded, "/clock", "/clock.json", -1): every
\* non-overlapping occurrence, from the left
RECURSIVE ReplaceClock(_, _)
ReplaceClock(s, i) ==
    IF i > Len(s) THEN <<>>
    ELSE IF OccursAt(s, SlashClock, i)
         THEN SlashClockJson \o ReplaceClock(s, i + Len(SlashClock))
         ELSE <<s[i]>> \o ReplaceClock(s, i + 1)

\* PlayerService.decodeSourceURL
decodeSourceURL(enc) ==
    IF Len(enc) < 2 \/ SubSeq(enc, 1, 2) # <<"-", "-">>
    THEN DecodeResult("encoded string does not start with '--'", <<>>)
    ELSE LET r == DecodePairs(SubSeq(enc, 3, Len(enc)), 1, <<>>)
         IN  IF r.err # "" THEN r
             ELSE DecodeResult("", ReplaceClock(r.text, 1))

-----------------------------------------------------------------------------
(* The source resolver and the playback caller.                            *)

\* strings.Contains on sequences of characters
Contains(s, sub) ==
    \E k \in 0..(Len(s) - Len(sub)) :
        \A i \in 1..Len(sub) : s[k + i] = sub[i]

\* the two supported markers
MarkerS == <<"S", "-", "m", "p", "4">>
MarkerLuf == <<"L", "u", "f", "-", "m", "p", "4">>

\* a filter that knows only the first marker
Supported_OnlyS(source) == Contains(source.SourceName, MarkerS)

Supported(source) ==
    Contains(source.SourceName, MarkerS) \/ Contains(source.SourceName, MarkerLuf)

\* the filter loop of GetEpisodeSources
RECURSIVE FilterSources(_, _)
FilterSources(raw, i) ==
    IF i > Len(raw) THEN <<>>
    ELSE (IF Supported(raw[i]) THEN <<raw[i]>> ELSE <<>>) \o FilterSources(raw, i + 1)

\* sort.Slice with Priority >: an insertion sort on at most 12 elements
RECURSIVE SourceSink(_, _)
SourceSink(s, j) ==
    IF j > 1 /\ s[j].Priority > s[j - 1].Priority
    THEN SourceSink(Swap(s, j, j - 1), j - 1)
    ELSE s

RECURSIVE SourceSortFrom(_, _)
SourceSortFrom(s, i) ==
    IF i > Len(s) THEN s ELSE SourceSortFrom(SourceSink(s, i), i + 1)

\* PlayerService.GetEpisodeSources on the answer of the listing query
GetEpisodeSources(answer) ==
    IF answer.err THEN [err |-> "error fetching sources", Sources |-> <<>>]
    ELSE IF FilterSources(answer.sources, 1) = <<>>
         THEN [err |-> "no supported sources found", Sources |-> <<>>]
         ELSE [err |-> "",
               Sources |-> SourceSortFrom(FilterSources(answer.sources, 1), 2)]

\* what the endpoint at a decoded path answers: a transport error, or the
\* links of the JSON body
Endpoint(path) ==
    CASE path = <<"/", "0">> -> [err |-> FALSE, Links |-> <<>>]
      [] path = <<"/", "e">> -> [err |-> FALSE, Links |-> <<"">>]
      [] path = <<"/", "a">> -> [err |-> FALSE, Links |-> <<"https://cdn/A.mp4">>]
      [] path = <<"/", "b">> -> [err |-> FALSE, Links |-> <<"https://cdn/B.mp4">>]
      [] OTHER -> [err |-> TRUE, Links |-> <<>>]

\* fetchStreamURL: the first link of the answer
fetchStreamURL(path, ctxExpired) ==
    IF ctxExpired \/ Endpoint(path).err
    THEN [err |-> "failed to execute request", url |-> ""]
    ELSE IF Len(Endpoint(path).Links) = 0
         THEN [err |-> "no streaming links found in response", url |-> ""]
         ELSE [err |-> "", url |-> Endpoint(path).Links[1]]

\* PlayerService.GetStreamURL
GetStreamURL(source, ctxExpired) ==
    IF decodeSourceURL(source.SourceURL).err # ""
    THEN [err |-> "failed to decode source URL", url |-> ""]
    ELSE fetchStreamURL(decodeSourceURL(source.SourceURL).text, ctxExpired)

PlaybackMsg(type, err) == [Type |-> type, Error |-> err]

\* playEpisode returns a message
Return(msg) ==
    /\ reported' = Append(reported, msg)
    /\ cpc' = "returned"

CallerIdle ==
    /\ listing = [err |-> FALSE, sources |-> <<>>]
    /\ sources = <<>> /\ cpc = "idle" /\ idx = 0 /\ tried = <<>>
    /\ streamURL = "" /\ launched = <<>> /\ reported = <<>> /\ timedOut = FALSE

\* the 2 minute deadline of playEpisode's context passes
CallerTimeout ==
    /\ cpc \notin {"idle", "returned"} /\ ~timedOut
    /\ timedOut' = TRUE
    /\ UNCHANGED <<listing, sources, cpc, idx, tried, streamURL, launched, reported>>
    /\ UNCHANGED besidesCaller

\* playEpisode: the call of GetEpisodeSources
CallerGetSources ==
    /\ cpc = "sources"
    /\ LET r == GetEpisodeSources(IF timedOut THEN [err |-> TRUE, sources |-> <<>>]
                                  ELSE listing)
       IN  IF r.err # ""
           THEN /\ Return(PlaybackMsg("error", r.err))
                /\ UNCHANGED <<sources, idx>>
           ELSE /\ sources' = r.Sources
                /\ idx' = 1
                /\ cpc' = "loop"
                /\ UNCHANGED reported
    /\ UNCHANGED <<listing, tried, streamURL, launched, timedOut>>
    /\ UNCHANGED besidesCaller

\* playEpisode: one iteration of the loop over sources.Sources
CallerTrySource ==
    /\ cpc = "loop" /\ idx <= Len(sources)
    /\ LET r == GetStreamURL(sources[idx], timedOut)
       IN  /\ tried' = Append(tried, [source |-> sources[idx], err |-> r.err, url |-> r.url])
           /\ IF r.err # ""
              THEN /\ idx' = idx + 1
                   /\ UNCHANGED <<streamURL, cpc>>
              ELSE /\ streamURL' = r.url
                   /\ cpc' = "check"
                   /\ UNCHANGED idx
    /\ UNCHANGED <<listing, sources, launched, reported, timedOut>>
    /\ UNCHANGED besidesCaller

\* playEpisode: the loop has run off the end of the list
CallerLoopEnd ==
    /\ cpc = "loop" /\ idx > Len(sources)
    /\ cpc' = "check"
    /\ UNCHANGED <<listing, sources, idx, tried, streamURL, launched, reported, timedOut>>
    /\ UNCHANGED besidesCaller

\* playEpisode: if streamURL == ""
CallerCheckURL ==
    /\ cpc = "check"
    /\ IF streamURL = ""
       THEN Return(PlaybackMsg("error", "failed to get playable URL from any source"))
       ELSE cpc' = "launch" /\ UNCHANGED reported
    /\ UNCHANGED <<listing, sources, idx, tried, streamURL, launched, timedOut>>
    /\ UNCHANGED besidesCaller

\* playEpisode: the call of LaunchPlayer, which fails or returns the channel
CallerLaunch ==
    /\ cpc = "launch"
    /\ launched' = Append(launched, streamURL)
    /\ \/ Return(PlaybackMsg("error", "failed to launch player"))
       \/ cpc' = "first" /\ UNCHANGED reported
    /\ UNCHANGED <<listing, sources, idx, tried, streamURL, timedOut>>
    /\ UNCHANGED besidesCaller

\* playEpisode: the select on ctx.Done() and the first event of the session
CallerFirstEvent ==
    /\ cpc = "first"
    /\ \/ timedOut /\ Return(PlaybackMsg("error", "timeout waiting for playback to start"))
       \/ Return(PlaybackMsg("error", "player event channel closed unexpectedly"))
       \/ Return(PlaybackMsg("started", ""))
       \/ Return(PlaybackMsg("error", "player error"))
    /\ UNCHANGED <<listing, sources, idx, tried, streamURL, launched, timedOut>>
    /\ UNCHANGED besidesCaller

CallerNext ==
    \/ CallerTimeout
    \/ CallerGetSources
    \/ CallerTrySource
    \/ CallerLoopEnd
    \/ CallerCheckURL
    \/ CallerLaunch
    \/ CallerFirstEvent

\* the sources the aggregator lists in the model
EpisodeSource(name, priority, url) ==
    [SourceName |-> name, Priority |-> priority, SourceURL |-> url]

SourceNames ==
    {MarkerS, MarkerLuf, <<"Y", "t", "-", "m", "p", "4">>,
     <<"i", "f", "r", "a", "m", "e">>}

\* encoded source URLs: one that does not decode, and the paths /d (an
\* unreachable endpoint), /0 (no links), /e (an empty first link), /a and /b
SourceURLs ==
    {<<"-", "-", "1", "7", "z", "z">>, <<"-", "-", "1", "7", "5", "c">>,
     <<"-", "-", "1", "7", "0", "8">>, <<"-", "-", "1", "7", "5", "d">>,
     <<"-", "-", "1", "7", "5", "9">>, <<"-", "-", "1", "7", "5", "a">>}

SourcePool ==
    {EpisodeSource(n, p, u) :
        n \in SourceNames, p \in {5, 9},
        u \in SourceURLs}

\* playEpisode has been called for an episode
CallerStarted ==
    /\ \E n \in 0..MaxSources : \E raw \in [1..n -> SourcePool] :
          listing \in {[err |-> FALSE, sources |-> raw]}
                      \cup (IF n = 0 THEN {[err |-> TRUE, sources |-> <<>>]} ELSE {})
    /\ sources = <<>> /\ cpc = "sources" /\ idx = 0 /\ tried = <<>>
    /\ streamURL = "" /\ launched = <<>> /\ reported = <<>> /\ timedOut = FALSE

-----------------------------------------------------------------------------
(* Pure functions applied to drawn inputs. *)

NotCalled == [done |-> FALSE, err |-> "", text |-> <<>>]

\* calculateProgressPercentage has not been called
NotComputed == [done |-> FALSE, percent |-> Percent(0, 1)]

ProgressIdle ==
    /\ operands = [playbackTime |-> 0, duration |-> 0]
    /\ computed = NotComputed

PureIdle ==
    /\ encoded = <<>>
    /\ decoded = NotCalled
    /\ ProgressIdle

\* the pieces encoded source URLs are put together from: mapped pairs, a
\* pair that is not in the table, a single character, and the encoding of
\* /clock
ClockPairs == <<"1", "7", "5", "b", "5", "4", "5", "7", "5", "b", "5", "3">>

Pieces ==
    {<<"0", "8">>, <<"5", "9">>, <<"1", "7">>, <<"z", "z">>, <<"5">>, ClockPairs}

Prefixes == {<<"-", "-">>, <<"-">>, <<>>}

RECURSIVE Concat(_, _)
Concat(pieces, i) ==
    IF i > Len(pieces) THEN <<>> ELSE pieces[i] \o Concat(pieces, i + 1)

\* an encoded source URL has been received
DecodeStarted ==
    /\ \E pre \in Prefixes : \E n \in 0..MaxPieces : \E ps \in [1..n -> Pieces] :
          encoded = pre \o Concat(ps, 1)
    /\ decoded = NotCalled

\* GetStreamURL calls decodeSourceURL
Decode ==
    /\ ~decoded.done
    /\ decoded' = [done |-> TRUE, err |-> decodeSourceURL(encoded).err,
                   text |-> decodeSourceURL(encoded).text]
    /\ UNCHANGED <<encoded, operands, computed>>
    /\ UNCHANGED besidesPure

-----------------------------------------------------------------------------
(* The keybindings of the terminal user interface. *)

\* Binding{Action, KeyMap{Primary, Secondary}}; "" is no secondary key
Binding(action, primary, secondary) ==
    [Action |-> action, Primary |-> primary, Secondary |-> secondary]

navigationBindings ==
    <<Binding("move_up", "up", "k"),
      Binding("move_down", "down", "j"),
      Binding("page_up", "pgup", ""),
      Binding("page_down", "pgdown", ""),
      Binding("move_top", "home", ""),
      Binding("move_bottom", "end", "")>>

globalBindings ==
    <<Binding("quit", "ctrl+c", ""),
      Binding("toggle_help", "ctrl+h", ""),
      Binding("logout", "ctrl+l", ""),
      Binding("back", "esc", "")>>

authBindings == <<Binding("login", "enter", "l")>>

withNavigation(bindings) == navigationBindings \o bindings

helpBindings == withNavigation(<<>>)

\* an anime list in which f is bound to the planning filter as well
animeListBindings_DuplicateKey ==
    withNavigation(
        <<Binding("refresh_anime_list", "r", ""),
          Binding("play_next_episode", "enter", "p"),
          Binding("toggle_filter_status_planning", "2", "f"),
          Binding("toggle_filter_finished_airing", "f", "")>>)

animeListBindings ==
    withNavigation(
        <<Binding("refresh_anime_list", "r", ""),
          Binding("play_next_episode", "enter", "p"),
          Binding("episode_selector", "ctrl+p", ""),
          Binding("enable_search", "/", "ctrl+f"),
          Binding("increment_progress", "+", ""),
          Binding("decrement_progress", "-", ""),
          Binding("toggle_filter_status_current", "1", ""),
          Binding("toggle_filter_status_planning", "2", ""),
          Binding("toggle_filter_status_complete", "3", ""),
          Binding("toggle_filter_status_dropped", "4", ""),
          Binding("toggle_filter_status_paused", "5", ""),
          Binding("toggle_filter_status_repeating", "6", ""),
          Binding("toggle_filter_new_episodes", "a", ""),
          Binding("toggle_filter_finished_airing", "f", "")>>)

episodeSelectBindings ==
    withNavigation(
        <<Binding("select_episode", "enter", ""),
          Binding("enable_search", "/", "ctrl+f")>>)

searchModeBindings ==
    <<Binding("back", "esc", "ctrl+f"),
      Binding("search_complete", "enter", "")>>

ContextNames ==
    {"global", "auth", "anime_list", "episode_selection", "search_mode", "help"}

ContextBindings ==
    [name \in ContextNames |->
        CASE name = "global" -> globalBindings
          [] name = "auth" -> authBindings
          [] name = "anime_list" -> animeListBindings
          [] name = "episode_selection" -> episodeSelectBindings
          [] name = "search_mode" -> searchModeBindings
          [] name = "help" -> helpBindings]

\* the loop of GetActionByKey: the action of the first binding whose primary
\* or secondary key is the key pressed, "" when there is none
RECURSIVE FirstBinding(_, _, _)
FirstBinding(key, bindings, i) ==
    IF i > Len(bindings) THEN ""
    ELSE IF bindings[i].Primary = key \/ bindings[i].Secondary = key
         THEN bindings[i].Action
         ELSE FirstBinding(key, bindings, i + 1)

GetActionByKey(key, name) ==
    IF name \in DOMAIN ContextBindings
    THEN FirstBinding(key, ContextBindings[name], 1)
    ELSE ""

\* no key press is being resolved
KeysIdle == keyContext = "" /\ keyMsg = "" /\ keyAction = "none"

-----------------------------------------------------------------------------
(* The configuration (internal/config): a Config is a function from the     *)
(* yaml path of each setting to its string value.                           *)

Settings ==
    {"auth.token", "ui.title_language", "player.type", "player.path",
     "player.args", "player.translation_type", "logging.level",
     "logging.file_path"}

\* the zero value of Config
ZeroConfig == [f \in Settings |-> ""]

createBaseDefaultConfig ==
    [f \in Settings |->
        CASE f = "player.type" -> "mpv"
          [] f = "player.path" -> "mpv"
          [] f = "player.translation_type" -> "sub"
          [] f = "logging.level" -> "info"
          [] OTHER -> ""]

\* the log file location of the platform, found at run time
defaultLogFilePath == "state/hisame/logs/hisame.log"

applyDynamicDefaults(cfg) ==
    [cfg EXCEPT !["logging.file_path"] = defaultLogFilePath]

\* yaml.Marshal and os.WriteFile: every field is omitempty, so the file holds
\* a key for each setting that is not empty
save(cfg) ==
    [exists |-> TRUE,
     keys |-> {f \in Settings : cfg[f] # ""},
     values |-> [f \in Settings |-> cfg[f]]]

NoFile == [exists |-> FALSE, keys |-> {}, values |-> ZeroConfig]

\* os.ReadFile and yaml.Unmarshal into a zero Config: a key the file does not
\* hold leaves the field empty
loadFromDisk(file) ==
    [f \in Settings |-> IF f \in file.keys THEN file.values[f] ELSE ""]

\* mergo.Merge(dst, src, mergo.WithOverride): a field of src that is not empty
\* replaces the field of dst
Merge(dst, src) ==
    [f \in Settings |-> IF src[f] # "" THEN src[f] ELSE dst[f]]

\* supportedEnvVars: the variable and the setting its apply function assigns
\* ("" for the no-op of HISAME_CONFIG_PATH)
supportedEnvVars ==
    << [name |-> "HISAME_CONFIG_PATH", field |-> ""],
       [name |-> "HISAME_CONFIG_AUTH_TOKEN", field |-> "auth.token"],
       [name |-> "HISAME_CONFIG_UI_TITLE_LANGUAGE", field |-> "ui.title_language"],
       [name |-> "HISAME_CONFIG_PLAYER_TYPE", field |-> "player.type"],
       [name |-> "HISAME_CONFIG_PLAYER_PATH", field |-> "player.path"],
       [name |-> "HISAME_CONFIG_PLAYER_ARGS", field |-> "player.args"],
       [name |-> "HISAME_CONFIG_LOGGING_LEVEL", field |-> "logging.level"],
       [name |-> "HISAME_CONFIG_LOGGING_FILE_PATH", field |-> "logging.file_path"] >>

\* the variables the integration test sets to override a setting
OverrideNames ==
    {"HISAME_CONFIG_AUTH_TOKEN", "HISAME_CONFIG_UI_TITLE_LANGUAGE",
     "HISAME_CONFIG_PLAYER_TYPE", "HISAME_CONFIG_PLAYER_PATH",
     "HISAME_CONFIG_PLAYER_ARGS", "HISAME_CONFIG_PLAYER_TRANSLATION_TYPE",
     "HISAME_CONFIG_LOGGING_LEVEL", "HISAME_CONFIG_LOGGING_FILE_PATH"}

EnvNames == OverrideNames \cup {"HISAME_CONFIG_PATH"}

\* the value the model gives an override variable, and the one UpdateConfig
\* writes
EnvValue == "from-env"
FileValue == "from-file"

\* the loop of applyEnvVarOverrides from entry i on
RECURSIVE ApplyFrom(_, _, _)
ApplyFrom(cfg, env, i) ==
    IF i > Len(supportedEnvVars) THEN cfg
    ELSE LET envVar == supportedEnvVars[i]
             value == env[envVar.name]
         IN  IF value # "" /\ envVar.field # ""
             THEN ApplyFrom([cfg EXCEPT ![envVar.field] = value], env, i + 1)
             ELSE ApplyFrom(cfg, env, i + 1)

applyEnvVarOverrides(cfg, env) == ApplyFrom(cfg, env, 1)

\* a Load that writes the first file after the run-time defaults are applied
WrittenWhenMissing_AfterDynamic ==
    save(applyDynamicDefaults(createBaseDefaultConfig))

\* what Load writes when it finds no config file
WrittenWhenMissing == save(createBaseDefaultConfig)

NotLoaded == [status |-> "none", cfg |-> ZeroConfig]

\* no configuration is being loaded
ConfigIdle ==
    /\ cfgFile = NoFile
    /\ environ = [n \in EnvNames |-> ""]
    /\ loaded = NotLoaded

\* a first start: no config file yet, the test's HISAME_CONFIG_PATH, no override
ConfigStarted ==
    /\ cfgFile = NoFile
    /\ environ = [n \in EnvNames |->
                     IF n = "HISAME_CONFIG_PATH" THEN "tmp/config.yaml" ELSE ""]
    /\ loaded = NotLoaded

\* Load(): the default file is written when none exists (a failed write is
\* ignored and the read that follows fails), then defaults, file, environment
Load ==
    /\ \E written \in BOOLEAN :
          cfgFile' = IF cfgFile.exists THEN cfgFile
                     ELSE IF written THEN WrittenWhenMissing ELSE NoFile
    /\ loaded' =
          IF cfgFile'.exists
          THEN [status |-> "ok",
                cfg |-> applyEnvVarOverrides(
                            Merge(applyDynamicDefaults(createBaseDefaultConfig),
                                  loadFromDisk(cfgFile')),
                            environ)]
          ELSE [status |-> "error", cfg |-> ZeroConfig]
    /\ UNCHANGED <<environ, keyVars, appVars, menuVars>>
    /\ UNCHANGED besidesUi

\* UpdateConfig(updateFn), updateFn assigning one setting
UpdateConfig ==
    /\ cfgFile.exists
    /\ \E f \in Settings :
          /\ loadFromDisk(cfgFile)[f] # FileValue
          /\ Cardinality({g \in Settings :
                             loadFromDisk(cfgFile)[g] = FileValue}) < MaxEdits
          /\ cfgFile' = save([loadFromDisk(cfgFile) EXCEPT ![f] = FileValue])
    /\ loaded' = NotLoaded
    /\ UNCHANGED <<environ, keyVars, appVars, menuVars>>
    /\ UNCHANGED besidesUi

\* os.Setenv of an override variable
Setenv ==
    /\ \E n \in OverrideNames :
          /\ environ[n] = ""
          /\ Cardinality({o \in OverrideNames : environ[o] # ""}) < MaxOverrides
          /\ environ' = [environ EXCEPT ![n] = EnvValue]
    /\ loaded' = NotLoaded
    /\ UNCHANGED <<cfgFile, keyVars, appVars, menuVars>>
    /\ UNCHANGED besidesUi

\* os.Unsetenv of an override variable
Unsetenv ==
    /\ \E n \in OverrideNames :
          /\ environ[n] # ""
          /\ environ' = [environ EXCEPT ![n] = ""]
    /\ loaded' = NotLoaded
    /\ UNCHANGED <<cfgFile, keyVars, appVars, menuVars>>
    /\ UNCHANGED besidesUi

-----------------------------------------------------------------------------
(* The model stack of the terminal interface (AppModel) and the playback    *)
(* flows of the anime list (AnimeListModel).  A command that has run is the  *)
(* message it produced, waiting in inbox; commands run concurrently, so      *)
(* Update may be given any waiting message next.                            *)

\* a tea.Msg: its kind, whether an anime is attached, the session and the
\* progress it reports
Msg(kind, anime, session, progress) ==
    [kind |-> kind, anime |-> anime, session |-> session, progress |-> progress]

\* a playEpisode command and the goroutine it starts: stage is "playing" while
\* playEpisode runs, "monitoring" while the goroutine ranges over the events,
\* "sending" while it is blocked on playbackCompletionCh, then "done"
Session(anime) ==
    [anime |-> anime, stage |-> "playing", outcome |-> "", progress |-> 0,
     handled |-> FALSE, credited |-> FALSE]

\* anime.Episodes of the selected anime, all of them aired
Episodes == 4

\* the progress an ended event may carry
Percents == {50, 75, 100}

\* the top of the stack, nil when the stack is empty
CurrentModel(stack) == IF Len(stack) = 0 THEN "nil" ELSE stack[Len(stack)]

PushModel(stack, view) == Append(stack, view)

PopModel_Unchecked(stack) == SubSeq(stack, 1, Len(stack) - 1)

PopModel(stack) ==
    IF Len(stack) <= 1 THEN stack ELSE SubSeq(stack, 1, Len(stack) - 1)

SetStack(stack, models) == IF Len(models) = 0 THEN stack ELSE models

\* getModel(ViewAnimeList) finds a model
HasAnimeList(stack) == \E i \in DOMAIN stack : stack[i] = "anime_list"

popLoadingModel(stack) ==
    IF CurrentModel(stack) = "loading" THEN PopModel(stack) ELSE stack

\* the waiting messages without the i-th
Taken(i) == SubSeq(inbox, 1, i - 1) \o SubSeq(inbox, i + 1, Len(inbox))

\* the interface has not been started
AppIdle ==
    /\ modelStack = <<>> /\ inbox = <<>> /\ sessions = <<>>
    /\ listeners = 0 /\ tracked = 0 /\ flows = 0

\* the anime list is shown, nothing is playing
AppStarted ==
    /\ modelStack = <<"anime_list">> /\ inbox = <<>> /\ sessions = <<>>
    /\ listeners = 0 /\ tracked = 0 /\ flows = 0

appFrame == UNCHANGED <<besidesUi, keyVars, configVars, menuVars>>

\* the play-next key on the anime list: handlePlayNextEpisode starts
\* loadNextEpisode, which finds the episode or does not
KeyPlayNext ==
    /\ CurrentModel(modelStack) = "anime_list"
    /\ tracked < Episodes
    /\ flows < MaxPlays
    /\ flows' = flows + 1
    /\ \E found \in BOOLEAN :
          inbox' = Append(inbox, IF found THEN Msg("EpisodeFound", TRUE, 0, 0)
                                 ELSE Msg("EpisodeError", FALSE, 0, 0))
    /\ UNCHANGED <<modelStack, sessions, listeners, tracked>>
    /\ appFrame

\* the episode-selector key on the anime list: handleChooseEpisode starts
\* loadEpisodes
KeyChooseEpisode ==
    /\ CurrentModel(modelStack) = "anime_list"
    /\ flows < MaxPlays
    /\ flows' = flows + 1
    /\ \E found \in BOOLEAN :
          inbox' = Append(inbox, IF found THEN Msg("EpisodesLoaded", FALSE, 0, 0)
                                 ELSE Msg("EpisodeError", FALSE, 0, 0))
    /\ UNCHANGED <<modelStack, sessions, listeners, tracked>>
    /\ appFrame

\* the select key of the episode selector
KeySelectEpisode ==
    /\ CurrentModel(modelStack) = "episode_select"
    /\ \A i \in DOMAIN inbox : inbox[i].kind # "EpisodeSelected"
    /\ inbox' = Append(inbox, Msg("EpisodeSelected", FALSE, 0, 0))
    /\ UNCHANGED <<modelStack, sessions, listeners, tracked, flows>>
    /\ appFrame

\* ctrl+h: handleToggleHelp
KeyToggleHelp ==
    /\ modelStack' = IF CurrentModel(modelStack) = "help"
                     THEN PopModel(modelStack)
                     ELSE PushModel(modelStack, "help")
    /\ UNCHANGED <<inbox, sessions, listeners, tracked, flows>>
    /\ appFrame

\* the menu key on the anime list: showMenu and the ShowMenuMsg it produces
KeyShowMenu ==
    /\ CurrentModel(modelStack) = "anime_list"
    /\ modelStack' = PushModel(modelStack, "menu")
    /\ UNCHANGED <<inbox, sessions, listeners, tracked, flows>>
    /\ appFrame

\* esc: the current model has nothing to cancel and is popped
KeyBack ==
    /\ Len(modelStack) > 1
    /\ modelStack' = PopModel(modelStack)
    /\ UNCHANGED <<inbox, sessions, listeners, tracked, flows>>
    /\ appFrame

\* ctrl+l: handleLogout leaves the authentication screen alone on the stack.
\* Logging in again builds another AnimeListModel and is not followed here.
KeyLogout ==
    /\ modelStack' = SetStack(modelStack, <<"auth">>)
    /\ UNCHANGED <<inbox, sessions, listeners, tracked, flows>>
    /\ appFrame

\* Update(PlaybackMsg EpisodeFound): the anime list model, wherever it is in
\* the stack, asks for a loading screen whose operation is playEpisode; with
\* no anime list in the stack the message goes to the model on top
UpdateEpisodeFound ==
    /\ \E i \in DOMAIN inbox :
          /\ inbox[i].kind = "EpisodeFound"
          /\ inbox' = IF HasAnimeList(modelStack)
                      THEN Append(Taken(i), Msg("LoadingStart", inbox[i].anime, 0, 0))
                      ELSE Taken(i)
    /\ UNCHANGED <<modelStack, sessions, listeners, tracked, flows>>
    /\ appFrame

\* Update(EpisodeMsg EpisodeEventError)
UpdateEpisodeError ==
    /\ \E i \in DOMAIN inbox :
          /\ inbox[i].kind = "EpisodeError"
          /\ inbox' = Taken(i)
    /\ modelStack' = popLoadingModel(modelStack)
    /\ UNCHANGED <<sessions, listeners, tracked, flows>>
    /\ appFrame

\* Update(EpisodeMsg EpisodeEventLoaded): the episode selector is pushed
UpdateEpisodesLoaded ==
    /\ \E i \in DOMAIN inbox :
          /\ inbox[i].kind = "EpisodesLoaded"
          /\ inbox' = Taken(i)
    /\ modelStack' = PushModel(popLoadingModel(modelStack), "episode_select")
    /\ UNCHANGED <<sessions, listeners, tracked, flows>>
    /\ appFrame

\* Update(EpisodeMsg EpisodeEventSelected): the top model is popped and the
\* message given to the model below, which starts playEpisode(episode, nil)
\* when it is the anime list
UpdateEpisodeSelected ==
    /\ \E i \in DOMAIN inbox :
          /\ inbox[i].kind = "EpisodeSelected"
          /\ modelStack' = PopModel(modelStack)
          /\ inbox' = IF CurrentModel(modelStack') = "anime_list"
                      THEN Append(Taken(i), Msg("LoadingStart", FALSE, 0, 0))
                      ELSE Taken(i)
    /\ UNCHANGED <<sessions, listeners, tracked, flows>>
    /\ appFrame

\* Update(LoadingMsg LoadingStart): a loading model replaces the one on top or
\* is pushed, and the operation, playEpisode, starts
UpdateLoadingStart ==
    /\ \E i \in DOMAIN inbox :
          /\ inbox[i].kind = "LoadingStart"
          /\ inbox' = Taken(i)
          /\ sessions' = Append(sessions, Session(inbox[i].anime))
    /\ modelStack' = PushModel(popLoadingModel(modelStack), "loading")
    /\ UNCHANGED <<listeners, tracked, flows>>
    /\ appFrame

\* Update(LoadingMsg LoadingStop)
UpdateLoadingStop ==
    /\ \E i \in DOMAIN inbox :
          /\ inbox[i].kind = "LoadingStop"
          /\ inbox' = Taken(i)
    /\ modelStack' = popLoadingModel(modelStack)
    /\ UNCHANGED <<sessions, listeners, tracked, flows>>
    /\ appFrame

\* playEpisode returns: an error before the player started, or the player
\* started and the monitoring goroutine is running
PlayEpisodeReturns ==
    /\ \E s \in DOMAIN sessions :
          /\ sessions[s].stage = "playing"
          /\ \E started \in BOOLEAN :
                IF started
                THEN /\ sessions' = [sessions EXCEPT ![s].stage = "monitoring"]
                     /\ inbox' = Append(inbox, Msg("PlaybackStarted",
                                                   sessions[s].anime, s, 0))
                ELSE /\ sessions' = [sessions EXCEPT ![s].stage = "done",
                                                     ![s].outcome = "failed"]
                     /\ inbox' = Append(inbox, Msg("PlaybackError",
                                                   sessions[s].anime, s, 0))
    /\ UNCHANGED <<modelStack, listeners, tracked, flows>>
    /\ appFrame

\* Update(PlaybackMsg PlaybackEventStarted): the loading model is popped when
\* it is on top, then the model now on top is given the message; the anime
\* list stops the loading screen and starts listenForPlaybackCompletion
UpdatePlaybackStarted ==
    /\ \E i \in DOMAIN inbox :
          /\ inbox[i].kind = "PlaybackStarted"
          /\ modelStack' = popLoadingModel(modelStack)
          /\ IF CurrentModel(modelStack') = "anime_list"
             THEN /\ inbox' = Append(Taken(i), Msg("LoadingStop", FALSE, 0, 0))
                  /\ listeners' = listeners + 1
             ELSE /\ inbox' = Taken(i)
                  /\ listeners' = listeners
    /\ UNCHANGED <<sessions, tracked, flows>>
    /\ appFrame

\* Update(PlaybackMsg PlaybackEventError)
UpdatePlaybackError ==
    /\ \E i \in DOMAIN inbox :
          /\ inbox[i].kind = "PlaybackError"
          /\ modelStack' = popLoadingModel(modelStack)
          /\ inbox' = IF CurrentModel(modelStack') = "anime_list"
                      THEN Append(Taken(i), Msg("LoadingStop", FALSE, 0, 0))
                      ELSE Taken(i)
    /\ UNCHANGED <<sessions, listeners, tracked, flows>>
    /\ appFrame

\* the monitoring goroutine receives the event that ends its loop: the
\* playback ended, failed, or the event channel was closed
MonitorEnds ==
    /\ \E s \in DOMAIN sessions :
          /\ sessions[s].stage = "monitoring"
          /\ \/ \E p \in Percents :
                  sessions' = [sessions EXCEPT
                      ![s].outcome = "ended",
                      ![s].progress = p,
                      ![s].stage = IF sessions[s].anime THEN "sending" ELSE "done"]
             \/ \E how \in {"error", "closed"} :
                  sessions' = [sessions EXCEPT ![s].outcome = how,
                                               ![s].stage = "done"]
    /\ UNCHANGED <<modelStack, inbox, listeners, tracked, flows>>
    /\ appFrame

\* the send on the unbuffered playbackCompletionCh meets a listener's receive
CompletionSent ==
    /\ listeners > 0
    /\ \E s \in DOMAIN sessions :
          /\ sessions[s].stage = "sending"
          /\ sessions' = [sessions EXCEPT ![s].stage = "done"]
          /\ inbox' = Append(inbox, Msg("PlaybackCompleted", TRUE, s,
                                        sessions[s].progress))
    /\ listeners' = listeners - 1
    /\ UNCHANGED <<modelStack, tracked, flows>>
    /\ appFrame

\* Update(PlaybackCompletedMsg): the model on top is given the message; the
\* anime list runs IncrementProgress when the progress is 75 or more
UpdatePlaybackCompleted ==
    /\ \E i \in DOMAIN inbox :
          /\ inbox[i].kind = "PlaybackCompleted"
          /\ inbox' = Taken(i)
          /\ LET s == inbox[i].session
                 increments == /\ inbox[i].progress >= 75
                               /\ ~(Episodes > 0 /\ tracked >= Episodes)
             IN  IF CurrentModel(modelStack) = "anime_list"
                 THEN /\ sessions' = [sessions EXCEPT
                                         ![s].handled = TRUE,
                                         ![s].credited = increments]
                      /\ tracked' = IF increments THEN tracked + 1 ELSE tracked
                 ELSE UNCHANGED <<sessions, tracked>>
    /\ UNCHANGED <<modelStack, listeners, flows>>
    /\ appFrame

\* what the user does
AppKeys ==
    \/ KeyPlayNext \/ KeyChooseEpisode \/ KeySelectEpisode
    \/ KeyToggleHelp \/ KeyShowMenu \/ KeyBack \/ KeyLogout

\* what the program does
AppStep ==
    \/ UpdateEpisodeFound \/ UpdateEpisodeError \/ UpdateEpisodesLoaded
    \/ UpdateEpisodeSelected \/ UpdateLoadingStart \/ UpdateLoadingStop
    \/ PlayEpisodeReturns \/ UpdatePlaybackStarted \/ UpdatePlaybackError
    \/ MonitorEnds \/ CompletionSent \/ UpdatePlaybackCompleted

AppNext == AppKeys \/ AppStep

-----------------------------------------------------------------------------
(* The cursor of a menu (MenuModel).  An item is its IsSeparator flag; the   *)
(* i-th item of the Go slice, counted from 0, is Items[i + 1].               *)

\* the loop of moveCursorUp: up past the separators, or past the top
RECURSIVE ScanUp(_, _)
ScanUp(items, c) ==
    IF c >= 0 /\ items[c + 1] THEN ScanUp(items, c - 1) ELSE c

\* the loop of moveCursorDown: down past the separators, or past the bottom
RECURSIVE ScanDown(_, _)
ScanDown(items, c) ==
    IF c < Len(items) /\ items[c + 1] THEN ScanDown(items, c + 1) ELSE c

moveCursorUp_NoSkip(items, cursor) ==
    IF cursor - 1 < 0 THEN cursor ELSE cursor - 1

moveCursorUp(items, cursor) ==
    LET c == ScanUp(items, cursor - 1)
    IN  IF c < 0 THEN cursor ELSE c

moveCursorDown(items, cursor) ==
    LET c == ScanDown(items, cursor + 1)
    IN  IF c >= Len(items) THEN cursor ELSE c

ensureValidCursor(items, cursor) ==
    IF Len(items) = 0 THEN cursor
    ELSE IF ~items[cursor + 1] THEN cursor
    ELSE moveCursorDown(items, cursor)

\* no menu has been built
MenuIdle == Items = <<>> /\ Cursor = 0 /\ menuReady = FALSE

\* NewMenuModel(title, items) with any items
NewMenuModel ==
    /\ \E n \in 0..MaxItems : Items \in [1..n -> BOOLEAN]
    /\ Cursor = 0
    /\ menuReady = FALSE

menuFrame == UNCHANGED <<besidesUi, keyVars, configVars, appVars>>

\* MenuModel.Init, called by PushModel
MenuModelInit ==
    /\ ~menuReady
    /\ menuReady' = TRUE
    /\ Cursor' = ensureValidCursor(Items, Cursor)
    /\ UNCHANGED Items
    /\ menuFrame

\* Update(KeyMsg) with a key bound to ActionMoveUp
KeyMoveUp ==
    /\ menuReady
    /\ Cursor' = moveCursorUp(Items, Cursor)
    /\ UNCHANGED <<Items, menuReady>>
    /\ menuFrame

\* Update(KeyMsg) with a key bound to ActionMoveDown
KeyMoveDown ==
    /\ menuReady
    /\ Cursor' = moveCursorDown(Items, Cursor)
    /\ UNCHANGED <<Items, menuReady>>
    /\ menuFrame

MenuNext == MenuModelInit \/ KeyMoveUp \/ KeyMoveDown

UiIdle == KeysIdle /\ ConfigIdle /\ AppIdle /\ MenuIdle

\* the keys of the keyboard the model presses: every key some binding names
\* and two that no binding names
KeyNames ==
    {"up", "k", "down", "j", "pgup", "pgdown", "home", "end",
     "ctrl+c", "ctrl+h", "ctrl+l", "esc", "enter", "l", "r", "p", "ctrl+p",
     "/", "ctrl+f", "+", "-", "1", "2", "3", "4", "5", "6", "a", "f",
     "x", "tab"}

KeysStarted ==
    /\ keyContext \in ContextNames \cup {"menu"}
    /\ keyMsg \in KeyNames
    /\ keyAction = "none"

\* a model's Update resolves the key press in its context
KeyPress ==
    /\ keyAction = "none"
    /\ keyAction' = GetActionByKey(keyMsg, keyContext)
    /\ UNCHANGED <<keyContext, keyMsg, configVars, appVars, menuVars>>
    /\ UNCHANGED besidesUi

KeysInit ==
    /\ ResolverIdle /\ SessionIdle /\ CallerIdle /\ PureIdle
    /\ KeysStarted /\ ConfigIdle /\ AppIdle /\ MenuIdle

ConfigInit ==
    /\ ResolverIdle /\ SessionIdle /\ CallerIdle /\ PureIdle
    /\ KeysIdle /\ ConfigStarted /\ AppIdle /\ MenuIdle

ConfigNext == Load \/ UpdateConfig \/ Setenv \/ Unsetenv

SpecConfig == ConfigInit /\ [][ConfigNext]_vars

AppInit ==
    /\ ResolverIdle /\ SessionIdle /\ CallerIdle /\ PureIdle
    /\ KeysIdle /\ ConfigIdle /\ AppStarted /\ MenuIdle

\* the runtime gives every waiting message to Update and every goroutine runs
SpecApp == AppInit /\ [][AppNext]_vars /\ WF_vars(AppStep)

SpecKeys == KeysInit /\ [][KeyPress]_vars

MenuInit ==
    /\ ResolverIdle /\ SessionIdle /\ CallerIdle /\ PureIdle
    /\ KeysIdle /\ ConfigIdle /\ AppIdle /\ NewMenuModel

SpecMenu == MenuInit /\ [][MenuNext]_vars

DecodeInit ==
    /\ ResolverIdle /\ SessionIdle /\ CallerIdle /\ UiIdle
    /\ DecodeStarted /\ ProgressIdle

SpecDecode == DecodeInit /\ [][Decode]_vars

\* the numbers a playback-time or duration property change carries: any JSON
\* number unmarshals into the float64 (extractEventDataFloat)
Seconds == (0 - MaxSeconds)..MaxSeconds

ProgressStarted ==
    /\ operands \in [playbackTime : Seconds, duration : Seconds]
    /\ computed = NotComputed

\* the monitor computes the progress of the ended event from the cached
\* playback time and duration
Calculate ==
    /\ ~computed.done
    /\ computed' = [done |-> TRUE,
                    percent |-> calculateProgressPercentage(operands.playbackTime,
                                                            operands.duration)]
    /\ UNCHANGED <<encoded, decoded, operands>>
    /\ UNCHANGED besidesPure

ProgressInit ==
    /\ ResolverIdle /\ SessionIdle /\ CallerIdle /\ UiIdle
    /\ encoded = <<>> /\ decoded = NotCalled
    /\ ProgressStarted

SpecProgress == ProgressInit /\ [][Calculate]_vars

-----------------------------------------------------------------------------

ResolveInit == ResolverInit /\ SessionIdle /\ CallerIdle /\ PureIdle /\ UiIdle

ResolveNext == FindEpisodes

SpecResolve == ResolveInit /\ [][ResolveNext]_vars

PlayInit == ResolverIdle /\ SessionIdle /\ CallerIdle /\ PureIdle /\ UiIdle

SpecPlay == PlayInit /\ [][PlayNext]_vars

FailingPlayerInit ==
    /\ ResolverIdle /\ NoSession /\ CallerIdle /\ PureIdle /\ UiIdle
    /\ player = FailingPlayer /\ Unstopped

SpecFailingPlayer == FailingPlayerInit /\ [][PlayNext]_vars

FloodInit ==
    /\ ResolverIdle /\ NoSession /\ CallerIdle /\ PureIdle /\ UiIdle
    /\ player = FloodPlayer /\ Unstopped

\* what the goroutine of Play and the reader goroutine do
GoroutineStep ==
    \/ ConnectOk \/ ConnectRetry \/ ConnectDeadline \/ ConnectExhausted
    \/ QueryIdle \/ StartTimeout \/ StartClosed \/ StartRecv
    \/ MonitorCancelled \/ MonitorClosed \/ MonitorRecv
    \/ ReaderSend \/ ReaderStop

FloodNext == PlayNext \/ ReaderSend

\* a session with a player that keeps reporting; the goroutines are scheduled
SpecFlood == FloodInit /\ [][FloodNext]_vars /\ WF_vars(GoroutineStep)

\* one iteration of the loop of WaitForConnection, or its end
ConnectStep == ConnectOk \/ ConnectRetry \/ ConnectDeadline \/ ConnectExhausted

\* the connect phase alone
ConnectNext ==
    \/ Play \/ MpvCreateSocket \/ MpvExit \/ CtxCancel \/ ConnExpire
    \/ ConnectOk \/ ConnectRetry \/ ConnectDeadline \/ ConnectExhausted

\* the goroutine of Play is scheduled and the timers of its selects fire
SpecConnect == PlayInit /\ [][ConnectNext]_vars /\ WF_vars(ConnectStep)

\* a player that plays one file to its end
ShortPlayer ==
    {MPVEvent("playback-restart", "", NoData),
     MPVEvent("property-change", "playback-time", NumData(45)),
     MPVEvent("end-file", "", NoData)}

\* releasePlayerProcess: the Unix build releases the process handle after
\* cmd.Start, the Windows build keeps it
Released == goos = "unix" /\ proc # "none"

\* what Stop reads in c.conn. Connect writes the field in the goroutine of
\* Play and Stop reads it in the caller's without a lock: until the
\* goroutine has handed an event over, the read may still give nil
ConnReadByStop ==
    {conn} \cup (IF conn = "open" /\ events = <<>> THEN {"none"} ELSE {})

\* Process.Kill: on a released handle it fails and signals nothing; on a
\* kept handle it terminates a running process and fails on one that has
\* exited
KillError ==
    IF Released THEN "os: process already released"
    ELSE IF proc = "running" THEN ""
    ELSE "TerminateProcess: Access is denied."

\* MPVPlayer.Stop: closes the connection it sees (the error of Close is
\* dropped), then kills the process if cmd.Start had succeeded
Stop ==
    /\ Len(stops) < MaxStops
    /\ \E seen \in ConnReadByStop :
          conn' = IF seen = "open" THEN "closed" ELSE conn
    /\ IF proc = "none"
       THEN /\ stops' = Append(stops, "")
            /\ UNCHANGED proc
       ELSE /\ stops' = Append(stops, KillError)
            /\ proc' = IF ~Released /\ proc = "running" THEN "exited" ELSE proc
    /\ UNCHANGED <<pc, socket, attempt, reader, ipc, ipcClosed, sent, ctxDone,
                   connExpired, startExpired, events, closed, playbackTime,
                   duration, consumed, cause>>
    /\ UNCHANGED <<resolverVars, callerVars, pureVars, player, goos, uiVars>>

StopInit ==
    /\ ResolverIdle /\ NoSession /\ CallerIdle /\ PureIdle /\ UiIdle
    /\ player = ShortPlayer
    /\ goos \in {"unix", "windows"}
    /\ stops = <<>>

SpecStop == StopInit /\ [][PlayNext \/ Stop]_vars

CallerInit == ResolverIdle /\ SessionIdle /\ CallerStarted /\ PureIdle /\ UiIdle

SpecCaller == CallerInit /\ [][CallerNext]_vars

-----------------------------------------------------------------------------
(* Claims about the episode resolver. *)

OverallNumbers == [i \in 1..Len(res.episodes) |-> res.episodes[i].OverallEpisodeNumber]

\* C1: the overall episode numbers of one returned episode list are strictly
\* increasing along the list, whatever labels the matched shows carry.
C1_OverallStrictlyIncreasing ==
    res.status = "ok" =>
        \A i \in 1..(Len(res.episodes) - 1) :
            OverallNumbers[i] < OverallNumbers[i + 1]

\* the matching rule as the specification states it: (a) the parsed identifier
\* equals the input identifier and is non-zero, or (b) there is no parseable
\* identifier and a name equals an input title or a trusted alternate name
\* equals an input synonym, case-insensitively
StatedMatchRule(animeID, title, synonyms, show) ==
    \/ GetAniListID(show) = animeID /\ animeID # 0
    \/ /\ GetAniListID(show) = 0
       /\ \/ \E n \in {show.Name, show.EnglishName, show.NativeName} :
                \E t \in {title.Native, title.English, title.Romaji} :
                    ToLower(n) = ToLower(t)
          \/ \E i \in 1..Len(show.TrustedAltNames) :
                \E j \in 1..Len(synonyms) :
                    ToLower(show.TrustedAltNames[i]) = ToLower(synonyms[j])

IsMatched(show) == \E j \in 1..Len(res.matched) : res.matched[j] = show

\* C6: a deduplicated candidate is in the matched set if and only if it
\* satisfies the stated matching rule.
C6_MatchedIffStatedRule ==
    res.status \in {"ok", "no-match"} =>
        \A i \in 1..Len(res.candidates) :
            IsMatched(res.candidates[i])
                <=> StatedMatchRule(req.animeID, req.title, req.synonyms, res.candidates[i])

TitlesOf(r) == <<r.title.Native, r.title.English, r.title.Romaji>>

\* C7: the no-candidates error is returned exactly when the searches together
\* return no show, and the no-match error exactly when a candidate was found
\* but none satisfies the matching rule.
C7_ErrorsDistinguished ==
    res.status # "none" =>
        /\ res.status = "no-candidates"
              <=> \A i \in 1..3 :
                     TitlesOf(req)[i] = "" \/ catalog.resp[i].err
                        \/ catalog.resp[i].shows = <<>>
        /\ res.status = "no-match"
              <=> /\ \E i \in 1..3 :
                        TitlesOf(req)[i] # "" /\ ~catalog.resp[i].err
                           /\ catalog.resp[i].shows # <<>>
                  /\ \A i \in 1..3 :
                        (TitlesOf(req)[i] # "" /\ ~catalog.resp[i].err) =>
                            \A k \in 1..Len(catalog.resp[i].shows) :
                                ~StatedMatchRule(req.animeID, req.title, req.synonyms,
                                                 catalog.resp[i].shows[k])

Searched(r) == {i \in 1..3 : TitlesOf(r)[i] # ""}

\* C8: when the catalog search fails with a transport error (every search
\* FindEpisodes made failed), FindEpisodes returns the transport error, not
\* the no-candidates or the no-match error.
C8_TransportErrorPropagated ==
    (/\ res.status # "none"
     /\ Searched(req) # {}
     /\ \A i \in Searched(req) : catalog.resp[i].err)
        => res.status = "transport-error"

MatchedSet == {res.matched[i] : i \in 1..Len(res.matched)}

\* C9: the comparison FindEpisodes sorts by is a strict total order on the
\* matched shows (asymmetric, transitive, total on distinct ids).
C9_StrictTotalOrder ==
    res.status = "ok" =>
        \A a, b, c \in MatchedSet :
            /\ ~(ShowLess(a, b) /\ ShowLess(b, a))
            /\ (ShowLess(a, b) /\ ShowLess(b, c)) => ShowLess(a, c)
            /\ a.ID # b.ID => (ShowLess(a, b) \/ ShowLess(b, a))

-----------------------------------------------------------------------------
(* Claims about the playback session. *)

EventTypes == [i \in 1..Len(events) |-> events[i].Type]

Terminal(i) == EventTypes[i] \in {"ended", "error"}

StartedEmitted == \E i \in 1..Len(events) : EventTypes[i] = "started"

\* C2: on the channel Play returns, a started event is the first event, at
\* most one ended or error event is sent, nothing is sent after it, the
\* channel is closed once it has been sent, and nothing is sent on the
\* closed channel.
C2_EventOrder ==
    /\ [](/\ \A i \in 1..Len(events) : EventTypes[i] = "started" => i = 1
          /\ Cardinality({i \in 1..Len(events) : Terminal(i)}) <= 1
          /\ \A i \in 1..Len(events) : Terminal(i) => i = Len(events)
          /\ (\E i \in 1..Len(events) : Terminal(i)) => closed)
    /\ [][closed => (closed' /\ events' = events)]_vars

C2_Witness ==
    /\ closed
    /\ EventTypes = <<"started", "ended">>

\* C3: when the connect phase exhausts its retries or its deadline, or start
\* detection times out or loses the IPC stream, the session has sent exactly
\* one event, an error event, and the channel is closed.
C3_FailureIsOneError ==
    cause \in {"connect-exhausted", "connect-deadline", "start-timeout", "start-closed"}
        => /\ EventTypes = <<"error">>
           /\ closed
           /\ pc = "done"

C3_Witness ==
    /\ cause = "connect-exhausted"
    /\ EventTypes = <<"error">>
    /\ closed

\* the most recent value of a property among the events the monitor received
LastReceived(name) ==
    LET hits == {i \in 1..Len(consumed) :
                    /\ consumed[i].Event = "property-change"
                    /\ consumed[i].Name = name
                    /\ consumed[i].Data.kind = "num"}
    IN  IF hits = {} THEN 0
        ELSE consumed[CHOOSE i \in hits : \A k \in hits : k <= i].Data.num

\* the stated progress: playbackTime / duration * 100, and 0 when an operand is 0
SamePercent(p, pt, dur) ==
    IF pt = 0 \/ dur = 0 THEN p.num = 0
    ELSE p.num * dur = pt * 100 * p.den

PhaseRank(p) ==
    CASE p = "idle" -> 0
      [] p = "connecting" -> 1
      [] p \in {"query", "awaitingStart"} -> 2
      [] p = "playing" -> 3
      [] p = "done" -> 4

\* C5: the phase only moves forward; once started has been sent there is no
\* further connection attempt or start-detection wait, and after the end
\* there is no further phase.
C5_PhaseMonotonic ==
    [][/\ PhaseRank(pc') >= PhaseRank(pc)
       /\ StartedEmitted => (attempt' = attempt /\ conn' = conn
                             /\ pc' \in {"playing", "done"})
       /\ pc = "done" => pc' = "done"]_vars

C5_Witness ==
    /\ pc = "done"
    /\ cause = "ipc-closed"
    /\ StartedEmitted

-----------------------------------------------------------------------------
(* Claims about the playback caller. *)

\* the GetStreamURL calls that returned no error
Succeeded == {i \in 1..Len(tried) : tried[i].err = ""}

\* C10: the caller calls GetStreamURL on the candidates in descending
\* priority order, stops at the first call that succeeds and launches the
\* player exactly once with the URL that call returned; if every call fails
\* it launches no player and reports exactly one error.
C10_FirstSuccessLaunchedOnce ==
    /\ \A i \in 1..Len(tried) :
          /\ tried[i].source = sources[i]
          /\ i > 1 => tried[i - 1].source.Priority >= tried[i].source.Priority
          /\ i < Len(tried) => tried[i].err # ""
    /\ cpc = "returned" =>
          IF Succeeded # {}
          THEN launched = <<tried[Len(tried)].url>>
          ELSE /\ launched = <<>>
               /\ Len(reported) = 1
               /\ reported[1].Type = "error"

-----------------------------------------------------------------------------
(* Claims about decodeSourceURL. *)

\* the number of two-character pairs after the prefix
PairCount(enc) == (Len(enc) - 2) \div 2

PairAt(enc, k) == <<enc[2 * k + 1], enc[2 * k + 2]>>

\* the input starts with the prefix and the remainder consists only of
\* table-mapped two-character pairs
WellFormed(enc) ==
    /\ Len(enc) >= 2
    /\ enc[1] = "-" /\ enc[2] = "-"
    /\ (Len(enc) - 2) % 2 = 0
    /\ \A k \in 1..PairCount(enc) : hexToChar(PairAt(enc, k)) # NoRune

\* the concatenation of the mapped characters
MappedText(enc) == [k \in 1..PairCount(enc) |-> hexToChar(PairAt(enc, k))]

ClockPlaces(c) == {i \in 1..Len(c) : OccursAt(c, SlashClock, i)}

\* how far position j of c has moved to the right in the rewritten text
Shift(c, j) == 5 * Cardinality({i \in ClockPlaces(c) : i + 5 < j})

\* o is c with .json inserted after every occurrence of /clock
IsClockRewrite(o, c) ==
    /\ Len(o) = Len(c) + 5 * Cardinality(ClockPlaces(c))
    /\ \A j \in 1..Len(c) : o[j + Shift(c, j)] = c[j]
    /\ \A i \in ClockPlaces(c) :
          SubSeq(o, i + 6 + Shift(c, i + 5), i + 10 + Shift(c, i + 5))
             = <<".", "j", "s", "o", "n">>

-----------------------------------------------------------------------------
(* Claims about the source resolver. *)

\* the raw source carries one of the two supported markers
HasMarker(source) ==
    \/ Contains(source.SourceName, <<"S", "-", "m", "p", "4">>)
    \/ Contains(source.SourceName, <<"L", "u", "f", "-", "m", "p", "4">>)

\* how often x occurs in the list s
Occurrences(s, x) == Cardinality({i \in 1..Len(s) : s[i] = x})

\* GetEpisodeSources has returned, and not with the error of the listing query
ListingAnswered ==
    /\ cpc # "sources"
    /\ cpc # "idle"
    /\ ~(Len(reported) >= 1 /\ reported[1].Error = "error fetching sources")

\* C12: the list GetEpisodeSources returns holds exactly the raw sources that
\* carry a supported marker, in non-increasing priority order; the
\* no-supported-source error is returned exactly when no raw source carries
\* a marker.
C12_FilteredSortedSources ==
    ListingAnswered =>
        IF \E i \in 1..Len(listing.sources) : HasMarker(listing.sources[i])
        THEN /\ \A x \in {listing.sources[i] : i \in 1..Len(listing.sources)}
                           \cup {sources[i] : i \in 1..Len(sources)} :
                   Occurrences(sources, x)
                      = (IF HasMarker(x) THEN Occurrences(listing.sources, x) ELSE 0)
             /\ \A i \in 1..(Len(sources) - 1) :
                   sources[i].Priority >= sources[i + 1].Priority
             /\ ~(Len(reported) >= 1 /\ reported[1].Error = "no supported sources found")
        ELSE /\ sources = <<>>
             /\ Len(reported) = 1
             /\ reported[1].Error = "no supported sources found"

C12_Witness ==
    /\ ListingAnswered
    /\ Len(listing.sources) = 2
    /\ listing.sources[1].Priority = 5 /\ HasMarker(listing.sources[1])
    /\ listing.sources[2].Priority = 9 /\ HasMarker(listing.sources[2])
    /\ sources = <<listing.sources[2], listing.sources[1]>>

-----------------------------------------------------------------------------
(* Claims about start detection and the monitor. *)

\* the four signals: a playback-time change with a positive value (as the
\* player sends it, name and number side by side, or as an object in the
\* data), an idle-active change to false, playback-restart, file-loaded
IsStartSignal(e) ==
    \/ e.Event \in {"playback-restart", "file-loaded"}
    \/ /\ e.Event = "property-change"
       /\ \/ e.Name = "playback-time" /\ e.Data.kind = "num" /\ e.Data.num > 0
          \/ /\ e.Data.kind = "obj" /\ e.Data.name = "playback-time"
             /\ e.Data.inner = "num" /\ e.Data.num > 0
          \/ /\ e.Data.kind = "obj" /\ e.Data.name = "idle-active"
             /\ e.Data.inner = "bool" /\ ~e.Data.bool

\* start detection takes an event off the IPC event channel
StartDetectionReceives == pc = "awaitingStart" /\ Len(ipc') < Len(ipc)

\* C13: start detection confirms playback on the first received event that
\* is one of the four signals and on no other event, and started is not
\* sent before a signal has been received.
C13_StartOnFirstSignal ==
    [][/\ StartDetectionReceives
            => (pc' = "playing" <=> IsStartSignal(Head(ipc)))
       /\ (~StartedEmitted /\ StartedEmitted')
            => (StartDetectionReceives /\ IsStartSignal(Head(ipc)))]_vars

\* a progress below zero
IsNegative(p) == (p.num < 0 /\ p.den > 0) \/ (p.num > 0 /\ p.den < 0)

\* C14: for all playback-time and duration values, the computed progress is
\* playbackTime / duration * 100, is 0 whenever either operand is 0, is never
\* negative, and is not clamped when it exceeds 100.
C14_ProgressValue ==
    computed.done =>
        /\ computed.percent.den # 0
        /\ (operands.playbackTime = 0 \/ operands.duration = 0)
              => computed.percent.num = 0
        /\ (operands.playbackTime # 0 /\ operands.duration # 0)
              => computed.percent.num * operands.duration
                     = operands.playbackTime * 100 * computed.percent.den
        /\ ~IsNegative(computed.percent)

\* an event in which the player reports an error
IsPlayerError(e) == e.Error \notin {"", "success"}

\* the monitor takes an event off the IPC event channel
MonitorReceives == pc = "playing" /\ Len(ipc') < Len(ipc)

\* C15: in the playing phase, an error event of the player concludes the
\* session with an error event: not with an ended event, and not by
\* continuing to monitor.
C15_PlayerErrorConcludes ==
    [][(MonitorReceives /\ IsPlayerError(Head(ipc)))
          => /\ closed'
             /\ Len(events') = Len(events) + 1
             /\ events'[Len(events')].Type = "error"]_vars

\* C16: when the deadline expires during the connect phase or during start
\* detection, the session reports a timeout error and the IPC connection
\* opened so far is closed: no open connection and no reader of the session
\* remains once the error has been reported.
C16_DeadlineReleasesConnection ==
    cause \in {"connect-deadline", "start-timeout"}
        => /\ EventTypes = <<"error">>
           /\ conn # "open"
           /\ reader # "running"

-----------------------------------------------------------------------------
(* Claims about Stop, the process and the connect loop. *)

\* a Stop() call returns
StopReturns == Len(stops') > Len(stops)

\* C18: Stop() may be called in any phase and any number of times: after
\* each call the IPC connection is closed and the player process, if it was
\* still running, is terminated; a second and later call reports no error.
C18_StopClosesAndTerminates ==
    [][StopReturns
          => /\ conn' # "open"
             /\ proc' # "running"
             /\ stops # <<>> => stops'[Len(stops')] = ""]_vars

\* the goroutine of Play has handed an event to the caller, or is not
\* running: what the caller reads afterwards is ordered after its writes
HandedOff == pc \in {"idle", "done"} \/ events # <<>>

\* C17: the IPC event stream is consumed by one task at a time, start
\* detection until started has been sent and the monitor afterwards; the
\* cached playback time and duration are written by the monitor only; and
\* no other task touches the connection or the process handle unless the
\* goroutine of the session has handed an event over.
C17_OneTaskAtATime ==
    [][/\ Len(ipc') < Len(ipc)
            => \/ pc = "awaitingStart" /\ ~StartedEmitted
               \/ pc = "playing" /\ StartedEmitted
       /\ <<playbackTime, duration>>' # <<playbackTime, duration>>
            => pc = "playing" /\ StartedEmitted /\ Len(ipc') < Len(ipc)
       /\ StopReturns => HandedOff]_vars

\* what the goroutine of Play, the contexts and the caller change
ProgramSide ==
    <<pc, attempt, conn, reader, events, closed, cause, ctxDone, connExpired,
      startExpired, cpc, reported, timedOut, launched>>

\* C19: no timeout, cancellation or error path of the connect phase, of
\* start detection or of the caller's playback attempt terminates a launched
\* player process: a running process stops running only in a Stop() call or
\* by exiting on its own, in a step in which the program does nothing.
C19_FailuresLeaveProcess ==
    [][(proc = "running" /\ proc' # "running")
          => (StopReturns \/ ProgramSide' = ProgramSide)]_vars

C19_Witness ==
    /\ cause = "start-timeout" /\ ctxDone
    /\ EventTypes = <<"error">>
    /\ proc = "running" /\ stops = <<>>

-----------------------------------------------------------------------------
(* Claims about the numbering of episodes. *)

\* the numbers the labels of a matched show parse to
ParsedNumbers(show) ==
    LET labels == GetAvailableEpisodes(show, catalog.translationType)
    IN  {Atoi(labels[i]).v : i \in {k \in 1..Len(labels) : Atoi(labels[k]).ok}}

\* the largest number of a non-empty set of integers
MaxOf(S) == CHOOSE m \in S : \A n \in S : n <= m

\* the offset of the k-th processed show: the sum of the largest parsed
\* numbers of the shows before it
RECURSIVE StatedOffset(_)
StatedOffset(k) ==
    IF k <= 1 THEN 0
    ELSE StatedOffset(k - 1)
         + (IF ParsedNumbers(res.matched[k - 1]) = {} THEN 0
            ELSE MaxOf(ParsedNumbers(res.matched[k - 1])))

\* C21: every emitted episode has overall number = parsed local number +
\* offset, the offset being 0 for the first processed show and growing after
\* each show by that show's largest parsed local number; local [1,2,3] then
\* [1,2] give overall 1,2,3,4,5.
C21_OverallIsLocalPlusOffset ==
    res.status = "ok" =>
        /\ \A i \in 1..Len(res.episodes) :
              \E k \in 1..Len(res.matched) :
                 /\ res.matched[k].ID = res.episodes[i].AllAnimeID
                 /\ Atoi(res.episodes[i].AllAnimeEpisodeNumber).ok
                 /\ res.episodes[i].OverallEpisodeNumber
                       = Atoi(res.episodes[i].AllAnimeEpisodeNumber).v + StatedOffset(k)
        /\ (/\ Len(res.matched) = 2
            /\ ParsedNumbers(res.matched[1]) = {1, 2, 3}
            /\ ParsedNumbers(res.matched[2]) = {1, 2}
            /\ Len(res.episodes) = 5)
              => OverallNumbers = <<1, 2, 3, 4, 5>>

C21_Witness ==
    /\ res.status = "ok"
    /\ Len(res.matched) = 2
    /\ GetAvailableEpisodes(res.matched[1], catalog.translationType)
          = << <<"3">>, <<"2">>, <<"1">> >>
    /\ GetAvailableEpisodes(res.matched[2], catalog.translationType)
          = << <<"2">>, <<"1">> >>
    /\ OverallNumbers = <<1, 2, 3, 4, 5>>

\* two shows whose air-start dates are known and equal
SameAirStart(a, b) ==
    /\ a.AiredStart.Year > 0 /\ b.AiredStart.Year > 0
    /\ a.AiredStart.Year = b.AiredStart.Year
    /\ a.AiredStart.Month = b.AiredStart.Month

\* C23: of two matched shows with equal air-start dates, the one with the
\* smaller aggregator id comes first in the merged sequence, whatever order
\* the catalog returned them in.
C23_TiesBrokenById ==
    res.status = "ok" =>
        \A i, j \in 1..Len(res.matched) :
            (i < j /\ SameAirStart(res.matched[i], res.matched[j]))
                => res.matched[i].ID < res.matched[j].ID

\* a matched show with at least one label that parses as an integer
HasEpisodes(show) == ParsedNumbers(show) # {}

\* C24: a matched show none of whose labels parses as an integer, or that
\* has no labels for the configured translation type, contributes no episode
\* record and leaves the offset unchanged: the episode list is the one built
\* from the matched shows without it.
C24_EmptyShowsSkipped ==
    res.status = "ok" =>
        /\ \A k \in 1..Len(res.matched) :
              ~HasEpisodes(res.matched[k])
                 => \A i \in 1..Len(res.episodes) :
                       res.episodes[i].AllAnimeID # res.matched[k].ID
        /\ res.episodes
              = buildEpisodeList(SelectSeq(res.matched, HasEpisodes),
                                 req.animeID, catalog.translationType)

C24_Witness ==
    /\ res.status = "ok"
    /\ Len(res.matched) = 2
    /\ GetAvailableEpisodes(res.matched[1], catalog.translationType)
          = << <<"1", ".", "5">> >>
    /\ GetAvailableEpisodes(res.matched[2], catalog.translationType)
          = << <<"2">>, <<"1">> >>
    /\ OverallNumbers = <<1, 2>>
    /\ \A i \in 1..2 : res.episodes[i].AllAnimeID = res.matched[2].ID

-----------------------------------------------------------------------------
(* Claims about the rewriting of the decoded path. *)

\* the characters that end a path segment
SegmentEnds == {"/", "?", "#"}

\* the places of c where a path segment equal to clock starts (at its slash)
ClockSegments(c) ==
    {i \in ClockPlaces(c) : i + 6 > Len(c) \/ c[i + 6] \in SegmentEnds}

\* how far position j of c moves to the right when .json is inserted after
\* the clock segments
SegmentShift(c, j) == 5 * Cardinality({i \in ClockSegments(c) : i + 5 < j})

\* o is c with every path segment clock turned into clock.json and nothing
\* else changed
IsSegmentRewrite(o, c) ==
    /\ Len(o) = Len(c) + 5 * Cardinality(ClockSegments(c))
    /\ \A j \in 1..Len(c) : o[j + SegmentShift(c, j)] = c[j]
    /\ \A i \in ClockSegments(c) :
          SubSeq(o, i + 6 + SegmentShift(c, i + 5), i + 10 + SegmentShift(c, i + 5))
             = <<".", "j", "s", "o", "n">>

\* C25: in the decoded path every path segment equal to clock is rewritten
\* to clock.json, and text that is not a /clock path segment is left
\* unchanged.
C25_ClockSegmentsRewritten ==
    (decoded.done /\ WellFormed(encoded))
        => IsSegmentRewrite(decoded.text, MappedText(encoded))

-----------------------------------------------------------------------------
(* Claims about the keybindings. *)

\* the keys of a binding
KeysOf(b) == {b.Primary, b.Secondary} \ {""}

\* the actions a key is bound to in a list of bindings
ActionsBoundTo(key, bindings) ==
    {bindings[i].Action : i \in {k \in 1..Len(bindings) : key \in KeysOf(bindings[k])}}

\* the list in the opposite order
Reverse(s) == [i \in 1..Len(s) |-> s[Len(s) + 1 - i]]

\* C26: within every keybinding context no key, primary or secondary, is
\* bound to two actions, so GetActionByKey resolves a key press to at most
\* one action, the same whatever the order of the bindings.
C26_NoDuplicateKeys ==
    /\ \A name \in DOMAIN ContextBindings :
          \A i, j \in 1..Len(ContextBindings[name]) :
              i # j => KeysOf(ContextBindings[name][i])
                          \cap KeysOf(ContextBindings[name][j]) = {}
    /\ (keyAction # "none" /\ keyContext \in DOMAIN ContextBindings) =>
          /\ ActionsBoundTo(keyMsg, ContextBindings[keyContext])
                = (IF keyAction = "" THEN {} ELSE {keyAction})
          /\ keyAction = FirstBinding(keyMsg, Reverse(ContextBindings[keyContext]), 1)

C26_Witness ==
    /\ keyContext = "anime_list" /\ keyMsg = "ctrl+f"
    /\ keyAction = "enable_search"

-----------------------------------------------------------------------------
(* Claims about the configuration. *)

\* the environment variable that overrides each setting
OverrideOf(f) ==
    CASE f = "auth.token" -> "HISAME_CONFIG_AUTH_TOKEN"
      [] f = "ui.title_language" -> "HISAME_CONFIG_UI_TITLE_LANGUAGE"
      [] f = "player.type" -> "HISAME_CONFIG_PLAYER_TYPE"
      [] f = "player.path" -> "HISAME_CONFIG_PLAYER_PATH"
      [] f = "player.args" -> "HISAME_CONFIG_PLAYER_ARGS"
      [] f = "player.translation_type" -> "HISAME_CONFIG_PLAYER_TRANSLATION_TYPE"
      [] f = "logging.level" -> "HISAME_CONFIG_LOGGING_LEVEL"
      [] f = "logging.file_path" -> "HISAME_CONFIG_LOGGING_FILE_PATH"

\* the built-in default of each setting, the run-time log path included
StatedDefault(f) ==
    CASE f \in {"player.type", "player.path"} -> "mpv"
      [] f = "player.translation_type" -> "sub"
      [] f = "logging.level" -> "info"
      [] f = "logging.file_path" -> defaultLogFilePath
      [] OTHER -> ""

\* the value of a setting in the config file, its default when the file has none
FileOrDefault(f) ==
    IF f \in cfgFile.keys THEN cfgFile.values[f] ELSE StatedDefault(f)

\* C27: the Config that Load returns holds, for every setting, the value of
\* its override variable when that variable is set, else the value the config
\* file holds, else the built-in default.
C27_EnvOverFileOverDefault ==
    loaded.status = "ok" =>
        \A f \in Settings :
            loaded.cfg[f] = IF environ[OverrideOf(f)] # ""
                            THEN environ[OverrideOf(f)]
                            ELSE FileOrDefault(f)

\* C28: the config file never holds the value of an override variable or the
\* run-time log path (the file written by the first Load has no log path), and
\* the Config that Load returns holds the file or default value of every
\* setting whose override variable is not set.
C28_LoadKeepsFileClean ==
    /\ \A f \in cfgFile.keys :
          cfgFile.values[f] \notin {EnvValue, defaultLogFilePath}
    /\ loaded.status = "ok" =>
          \A f \in Settings :
              environ[OverrideOf(f)] = "" => loaded.cfg[f] = FileOrDefault(f)

\* Load has written the first file and returned the run-time log path and the
\* default level while no override is set
C28_Witness ==
    /\ cfgFile.exists
    /\ "logging.file_path" \notin cfgFile.keys
    /\ loaded.status = "ok"
    /\ loaded.cfg["logging.file_path"] = defaultLogFilePath
    /\ loaded.cfg["logging.level"] = "info"
    /\ \A n \in OverrideNames : environ[n] = ""
    /\ \E f \in cfgFile.keys : cfgFile.values[f] = FileValue

-----------------------------------------------------------------------------
(* Claims about the playback flows of the interface. *)

\* session s was started through the play-next flow and its playback ended
\* with a progress of 75 or more
WatchedNext(s) ==
    /\ s \in DOMAIN sessions
    /\ sessions[s].anime
    /\ sessions[s].outcome = "ended"
    /\ sessions[s].progress >= 75

\* the tracked progress was incremented for session s
Credited(s) == s \in DOMAIN sessions /\ sessions[s].credited

\* C29: the tracked progress changes only by one, and only for a play-next
\* session that ended with a progress of 75 or more and has not been counted;
\* and every such session is eventually counted.  Sessions that ended below
\* 75, with an error, or without an anime attached never change it.
C29_ProgressCountsWatched ==
    /\ [][tracked' # tracked =>
             /\ tracked' = tracked + 1
             /\ \E s \in DOMAIN sessions :
                   WatchedNext(s) /\ ~sessions[s].credited /\ sessions'[s].credited]_vars
    /\ \A s \in 1..MaxPlays : WatchedNext(s) ~> Credited(s)

\* the monitoring goroutine of session s is blocked on the send
BlockedOnSend(s) == s \in DOMAIN sessions /\ sessions[s].stage = "sending"

\* the anime list model has been given the completion message of session s
HandledByList(s) == s \in DOMAIN sessions /\ sessions[s].handled

\* C30: whenever the monitoring goroutine of a play-next session reaches the
\* send on playbackCompletionCh, the message is eventually received and given
\* to the anime list model.
C30_CompletionDelivered ==
    \A s \in 1..MaxPlays : BlockedOnSend(s) ~> HandledByList(s)

-----------------------------------------------------------------------------
(* Claims about the goroutines of the playback session. *)

\* the player has closed the IPC connection while the reader was reading it
ClosedByPlayer == proc = "exited" /\ reader \notin {"none", "done"}

\* readEvents has returned and closed c.events
ReaderFinished == reader = "done" /\ ipcClosed

\* C31: once the player has closed the IPC connection the reader goroutine
\* eventually returns, having closed its event channel; it does not stay
\* blocked on the send into the channel.
C31_ReaderFinishes == ClosedByPlayer ~> ReaderFinished

\* the goroutine of Play has returned
GoroutineExited == pc = "done"

\* C32: the goroutine of Play sends at most two events, fewer than the ten
\* the channel buffers, so no send waits for the caller, who never receives
\* in the model; the channel is closed when the goroutine has returned and
\* only then, and nothing is sent or closed after that.
C32_TwoEventsOneClose ==
    /\ [](/\ Len(events) <= 2
          /\ Len(events) <= EventsChanCap
          /\ closed <=> GoroutineExited)
    /\ [][closed => closed' /\ events' = events]_vars

\* the goroutine has sent the started and the ended event and returned
C32_Witness ==
    /\ Len(events) = 2
    /\ events[1].Type = "started" /\ events[2].Type = "ended"
    /\ closed /\ GoroutineExited

-----------------------------------------------------------------------------
(* Further claims about the playback caller and the resolver. *)

\* playEpisode has reported that no source gave a playable URL
NoPlayableURLReported ==
    \E i \in 1..Len(reported) :
        reported[i].Error = "failed to get playable URL from any source"

\* the i-th candidate has been given to GetStreamURL, which gave no usable URL
TriedWithoutURL(i) ==
    /\ i <= Len(tried)
    /\ tried[i].source = sources[i]
    /\ tried[i].err # "" \/ tried[i].url = ""

\* C33: when playEpisode reports that no playable URL could be obtained from
\* any source, GetStreamURL has been attempted for every candidate of the
\* list and none of the attempts gave a usable URL; no candidate is untried.
C33_ErrorAfterAllTried ==
    NoPlayableURLReported => \A i \in 1..Len(sources) : TriedWithoutURL(i)

\* one of the three name comparisons, or an alternative name, holds on a
\* name that is not empty
NonEmptyNameMatch(title, synonyms, show) ==
    \/ show.Name # "" /\ ToLower(show.Name) = ToLower(title.Romaji)
    \/ show.EnglishName # "" /\ ToLower(show.EnglishName) = ToLower(title.English)
    \/ show.NativeName # "" /\ ToLower(show.NativeName) = ToLower(title.Native)
    \/ \E i \in 1..Len(show.TrustedAltNames) :
          \E j \in 1..Len(synonyms) :
              ToLower(show.TrustedAltNames[i]) = ToLower(synonyms[j])

\* C34: a candidate without a parseable identifier that FindEpisodes matched
\* for an anime with a real id was matched on a name that is not empty; two
\* empty strings being equal is not a match.
C34_NoMatchOnEmptyName ==
    res.status \in {"ok", "no-match"} /\ req.animeID # 0 =>
        \A i \in 1..Len(res.candidates) :
            IsMatched(res.candidates[i]) /\ GetAniListID(res.candidates[i]) = 0
                => NonEmptyNameMatch(req.title, req.synonyms, res.candidates[i])

-----------------------------------------------------------------------------
(* Further claims about the model stack of AppModel. *)

\* the loading models on the stack
LoadingModels == {i \in DOMAIN modelStack : modelStack[i] = "loading"}

\* the playback attempts whose outcome Update has not handled yet: playEpisode
\* is still running, or its message is waiting
RunningAttempts == {s \in DOMAIN sessions : sessions[s].stage = "playing"}

WaitingOutcomes ==
    {i \in DOMAIN inbox : inbox[i].kind \in {"PlaybackStarted", "PlaybackError"}}

\* C35: every loading model is pushed for one playback attempt and is off the
\* stack once the message with the outcome of that attempt has been handled,
\* whatever was pushed on top of it, so the stack never holds more loading
\* models than there are attempts whose outcome has not been handled.
C35_LoadingGoneAfterOutcome ==
    Cardinality(LoadingModels)
        <= Cardinality(RunningAttempts) + Cardinality(WaitingOutcomes)

\* C36: in every state reached by key presses and messages the model stack
\* holds at least one model and CurrentModel returns a model, not nil.
C36_StackNeverEmpty ==
    Len(modelStack) >= 1 /\ CurrentModel(modelStack) # "nil"

\* the authentication screen is alone on the stack after SetStack, and the
\* episode-selected message, whose handler calls PopModel, is waiting
C36_Witness ==
    /\ modelStack = <<"auth">>
    /\ \E i \in DOMAIN inbox : inbox[i].kind = "EpisodeSelected"

-----------------------------------------------------------------------------
(* The claim about the cursor of a menu. *)

HasSelectable == \E i \in 1..Len(Items) : ~Items[i]

\* the cursor is an index of the slice and the item there is no separator
OnSelectable == Cursor \in 0..(Len(Items) - 1) /\ ~Items[Cursor + 1]

SelectableAbove == \E i \in 0..(Cursor - 1) : ~Items[i + 1]

SelectableBelow == \E i \in (Cursor + 1)..(Len(Items) - 1) : ~Items[i + 1]

\* C37: in a menu with at least one item that is no separator the cursor is,
\* after Init and after every move up or down, a valid index of an item that
\* is no separator; a move up with no such item above the cursor, and a move
\* down with none below it, leaves the cursor where it was.
C37_CursorOnSelectable ==
    /\ [](menuReady /\ HasSelectable => OnSelectable)
    /\ [][KeyMoveUp /\ ~SelectableAbove => Cursor' = Cursor]_vars
    /\ [][KeyMoveDown /\ ~SelectableBelow => Cursor' = Cursor]_vars

\* Init has moved the cursor off the leading separator and a move down has
\* taken it over the separator in the middle, to the last selectable item
C37_Witness ==
    /\ menuReady
    /\ Items = <<TRUE, FALSE, TRUE, FALSE, TRUE>>
    /\ Cursor = 3
====
